---- MODULE Spec2Model ----
(***************************************************************************)
(* A model of the configdb storage core.                                   *)
(*                                                                         *)
(*   SpecLog   the transaction log (store/log/transaction_log.rs) over the *)
(*             file helpers of store/files.rs                              *)
(*   SpecSkip  the skip list (store/structures/skip_list.rs)               *)
(*                                                                         *)
(* Unsigned machine integers (u64, usize) are held as signed residues      *)
(* modulo 2^64: a negative value v stands for 2^64 + v, the value a        *)
(* wrapping subtraction leaves behind.                                     *)
(***************************************************************************)
EXTENDS Integers, Sequences, FiniteSets, TLC

VARIABLES
    \* ---- build ----
    overflow_checks, \* TRUE: arithmetic overflow panics (debug); FALSE: it wraps
    \* ---- transaction log: the directory and its files ----
    dirKind,         \* "absent" | "dir" | "file": what the path dir_str names
    lockF,           \* log.lock exists
    idxF,            \* log_idx.cfgdb   [exists, bytes]
    logF,            \* log_data.cfgdb  [exists, bytes]
    idxBk,           \* log_idx.cfgdb.bck
    logBk,           \* log_data.cfgdb.bck
    live,            \* number of TransactionLog values not yet dropped
    insts,           \* those values, oldest first: [via, closed], closed after
                     \* a close or remove_files call on the value
    pending,         \* <<r>> while push(r) is between its two appends, else <<>>
    pushed,          \* history: records pushed with success since the files were created
    dirty,           \* history: a push stopped between its two appends since then
    ret,             \* the last log operation and what it returned
    \* ---- skip list ----
    levels,          \* SkipList.levels
    heap,            \* the nodes, by address
    head,            \* Head.next (0 = None)
    size,            \* SkipList.size
    kv,              \* history: the key -> value map the calls so far describe
    ops,             \* history: the number of insert and delete calls so far
    sret,            \* the last skip-list operation and what it returned
    \* ---- cuckoo filter ----
    table,           \* Table.delegate: the buckets [base, idx, cap]
    done,            \* history: the items whose insert returned Done
    calls,           \* history: the number of insert calls so far
    cret,            \* the last filter operation and what it returned
    \* ---- record codec ----
    codec,           \* a Record, its bytes, what from_bytes made of them
    \* ---- fingerprints ----
    rabin            \* RabinFingerprint {p, base}, the last call and its result

logVars  == <<dirKind, lockF, idxF, logF, idxBk, logBk, live, insts, pending, pushed, dirty, ret>>
skipVars == <<levels, heap, head, size, kv, ops, sret>>
cuckooVars == <<table, done, calls, cret>>
vars     == <<overflow_checks, logVars, skipVars, cuckooVars, codec, rabin>>
\* what the log's operations do not touch
notLog   == <<overflow_checks, skipVars, cuckooVars, codec, rabin>>

(***************************************************************************)
(* Bounds                                                                  *)
(***************************************************************************)
MaxPush == 2        \* index entries a log may hold
MaxLive == 2        \* TransactionLog values alive at once

(***************************************************************************)
(* Byte codec                                                              *)
(***************************************************************************)
Max(a, b) == IF a > b THEN a ELSE b

Rep(b, n) == [i \in 1..n |-> b]

\* to_be_bytes of an unsigned integer n on w bytes
RECURSIVE BE(_, _)
BE(n, w) == IF w = 0 THEN <<>> ELSE Append(BE(n \div 256, w - 1), n % 256)

\* u32::from_be_bytes (every byte the model writes is below 128)
RECURSIVE FromBE(_)
FromBE(bs) ==
    IF bs = <<>> THEN 0
    ELSE 256 * FromBE(SubSeq(bs, 1, Len(bs) - 1)) + bs[Len(bs)]

RECURSIVE StripZeros(_)
StripZeros(bs) ==
    IF bs # <<>> /\ bs[1] = 0 THEN StripZeros(Tail(bs)) ELSE bs

\* A u128 is held as its base-256 digits, most significant first, without
\* leading zeros (TLC's integers stop at 2^31).
U128(n) == StripZeros(BE(n, 16))

\* u128::to_be_bytes
U128ToBE(d) == Rep(0, 16 - Len(d)) \o d

\* convert_128
Convert128(slice) == StripZeros(SubSeq(slice, 1, 16))

\* convert_32
Convert32(slice) == FromBE(SubSeq(slice, 1, 4))

OpByte(op) == CASE op = "Insert" -> 1 [] op = "Delete" -> 2 [] op = "Lock" -> 3

\* faulty variant: the bytes of Insert and Delete change places
ByteOp_Swapped(b) == CASE b = 1 -> "Delete" [] b = 2 -> "Insert" [] b = 3 -> "Lock"

ByteOp(b) == CASE b = 1 -> "Insert" [] b = 2 -> "Delete" [] b = 3 -> "Lock"

\* Record::op_from
OpFrom(op, ts, key, val) ==
    [timestamp |-> U128(ts), operation |-> op,
     key_len |-> Len(key), val_len |-> Len(val), key |-> key, val |-> val]

\* faulty variant: the operation byte is left out of the size
SizeInBytes_NoOpByte(r) == r.val_len + r.key_len + 16 + 4 + 4

\* faulty variant: the timestamp counted as 8 bytes, as the doc comment has it
SizeInBytes_Ts8(r) == r.val_len + r.key_len + 8 + 4 + 4 + 1

\* Record::size_in_bytes
SizeInBytes(r) == r.val_len + r.key_len + 16 + 4 + 4 + 1

\* faulty variant: the timestamp goes out on 8 bytes, as the doc comment has it
RecordToBytes_Ts8(r) ==
    <<OpByte(r.operation)>> \o SubSeq(U128ToBE(r.timestamp), 9, 16) \o BE(r.key_len, 4)
        \o BE(r.val_len, 4) \o r.key \o r.val

\* impl ToBytes for Record
RecordToBytes(r) ==
    <<OpByte(r.operation)>> \o U128ToBE(r.timestamp) \o BE(r.key_len, 4)
        \o BE(r.val_len, 4) \o r.key \o r.val

\* impl FromBytes for Record: Ok(record) | Err | Panic
RecordFromBytes(bytes) ==
    IF bytes = <<>> THEN [res |-> "Err"]
    ELSE IF bytes[1] \notin {1, 2, 3} THEN [res |-> "Panic"]
    ELSE IF Len(bytes) < 25 THEN [res |-> "Panic"]
    ELSE LET timestamp == Convert128(SubSeq(bytes, 2, 17))
             key_len   == Convert32(SubSeq(bytes, 18, 21))
             val_len   == Convert32(SubSeq(bytes, 22, 25))
         IN  IF 25 + key_len > Len(bytes)
             THEN [res |-> "Panic"]
             ELSE [res |-> "Ok",
                   val |-> [timestamp |-> timestamp, operation |-> ByteOp(bytes[1]),
                            key_len |-> key_len, val_len |-> val_len,
                            key |-> SubSeq(bytes, 26, 25 + key_len),
                            val |-> SubSeq(bytes, 26 + key_len, Len(bytes))]]

\* Index::create(val).to_bytes()
IndexToBytes(v) == BE(v, 4)

\* impl FromBytes for Index (convert_to_fixed panics unless it is handed 4 bytes)
IndexFromBytes(bytes) ==
    IF Len(bytes) # 4 THEN [res |-> "Panic"]
    ELSE [res |-> "Ok", val |-> FromBE(bytes)]

\* bytes.chunks(4): pieces of 4 bytes, the last one shorter if bytes run out
RECURSIVE Chunks4(_)
Chunks4(bytes) ==
    IF bytes = <<>> THEN <<>>
    ELSE IF Len(bytes) <= 4 THEN <<bytes>>
    ELSE <<SubSeq(bytes, 1, 4)>> \o Chunks4(SubSeq(bytes, 5, Len(bytes)))

\* Index::array_to_bytes of the indices vs
RECURSIVE ArrayToBytes(_)
ArrayToBytes(vs) ==
    IF vs = <<>> THEN <<>> ELSE IndexToBytes(vs[1]) \o ArrayToBytes(Tail(vs))

\* Index::from_bytes_array: every chunk goes through Index::from_bytes, the
\* filter keeps the Ok ones, and a panic of from_bytes ends the call
IndexFromBytesArray(bytes) ==
    LET chunks  == Chunks4(bytes)
        decoded == [i \in 1..Len(chunks) |-> IndexFromBytes(chunks[i])]
    IN  IF \E i \in 1..Len(chunks) : decoded[i].res = "Panic"
        THEN [res |-> "Panic"]
        ELSE [res |-> "Ok",
              val |-> [i \in 1..Len(SelectSeq(decoded, LAMBDA d : d.res = "Ok")) |->
                          SelectSeq(decoded, LAMBDA d : d.res = "Ok")[i].val]]

(***************************************************************************)
(* File segment I/O (store/files.rs)                                       *)
(***************************************************************************)
NoFile == [exists |-> FALSE, bytes |-> <<>>]
EmptyFile == [exists |-> TRUE, bytes |-> <<>>]

\* a >= b and a > b on u64 values held as signed residues
UGe(a, b) == IF (a < 0) = (b < 0) THEN a >= b ELSE a < 0
UGt(a, b) == IF (a < 0) = (b < 0) THEN a > b ELSE a < 0

\* append_bytes: the bytes go to the end of the file
AppendBytes(f, bytes) == [f EXCEPT !.bytes = @ \o bytes]

\* read_slice_bytes_internally: Ok(bytes) | Err
ReadSliceBytesInternally(from, to, file_size, f) ==
    IF UGe(from, file_size) \/ UGt(to, file_size) \/ UGe(from, to)
    THEN [res |-> "Err"]
    ELSE [res |-> "Ok", val |-> SubSeq(f.bytes, from + 1, to)]

AndThenIndex(r) == IF r.res = "Ok" THEN IndexFromBytes(r.val) ELSE r
AndThenRecord(r) == IF r.res = "Ok" THEN RecordFromBytes(r.val) ELSE r

\* read_slice_from_end up to the decoding: file_size - from is a u64
\* subtraction, which panics under overflow checks and wraps without them
ReadSliceFromEndBytes(f, from, number, checks) ==
    IF ~f.exists THEN [res |-> "Err"]
    ELSE LET file_size == Len(f.bytes)
             start_pos == file_size - from
             fin_pos   == start_pos + number
         IN  IF from > file_size /\ checks THEN [res |-> "Panic"]
             ELSE ReadSliceBytesInternally(start_pos, fin_pos, file_size, f)

\* a + b on u64 values held as signed residues leaves the u64 range
UAddOverflows(a, b) ==
    \/ a < 0 /\ b < 0
    \/ (a < 0) # (b < 0) /\ a + b >= 0

\* read_slice up to the decoding: from + number is a u64 addition, which
\* panics under overflow checks and wraps without them
ReadSliceBytes(f, from, number, checks) ==
    IF ~f.exists THEN [res |-> "Err"]
    ELSE LET file_size == Len(f.bytes)
             to        == from + number
         IN  IF UAddOverflows(from, number) /\ checks THEN [res |-> "Panic"]
             ELSE ReadSliceBytesInternally(from, to, file_size, f)

\* read_slice::<Record>
ReadSliceRecord(f, from, number, checks) ==
    AndThenRecord(ReadSliceBytes(f, from, number, checks))

\* read_slice_from_end::<Index>
ReadIndexFromEnd(f, from, number, checks) ==
    AndThenIndex(ReadSliceFromEndBytes(f, from, number, checks))

\* read_slice_from_end::<Record>
ReadRecordFromEnd(f, from, number, checks) ==
    AndThenRecord(ReadSliceFromEndBytes(f, from, number, checks))

\* copy_file
CopyFile(src) == [exists |-> TRUE, bytes |-> src.bytes]

(***************************************************************************)
(* Transaction log: tail reads                                             *)
(***************************************************************************)
\* faulty variant: the offset is the last entry alone, not the sum of the entries read
RECURSIVE ReadFromEndLoop_NoSum(_, _, _, _, _, _)
ReadFromEndLoop_NoSum(idx, i, k, r_start_pos, r_number, checks) ==
    IF i > k THEN [res |-> "Ok", val |-> [start |-> r_start_pos, number |-> r_number]]
    ELSE LET e == ReadIndexFromEnd(idx, i * 4, 4, checks)
         IN  IF e.res # "Ok" THEN e
             ELSE ReadFromEndLoop_NoSum(idx, i + 1, k, e.val, e.val, checks)

\* the loop of read_from_end from iteration i on: Ok([start, number]) | Err | Panic
RECURSIVE ReadFromEndLoop(_, _, _, _, _, _)
ReadFromEndLoop(idx, i, k, r_start_pos, r_number, checks) ==
    IF i > k THEN [res |-> "Ok", val |-> [start |-> r_start_pos, number |-> r_number]]
    ELSE LET e == ReadIndexFromEnd(idx, i * 4, 4, checks)
         IN  IF e.res # "Ok" THEN e
             ELSE ReadFromEndLoop(idx, i + 1, k, r_start_pos + e.val, e.val, checks)

\* TransactionLog::read_from_end
ReadFromEndOf(idx, log, pos_from_end, checks) ==
    LET l == ReadFromEndLoop(idx, 1, pos_from_end, 0, 0, checks)
    IN  IF l.res # "Ok" THEN l
        ELSE IF l.val.number = 0 THEN [res |-> "Err"]
        ELSE ReadRecordFromEnd(log, l.val.start, l.val.number, checks)

\* faulty variant: each record read goes to the front of the list
RECURSIVE ReadAllFromEndLoop_Front(_, _, _, _, _, _, _)
ReadAllFromEndLoop_Front(idx, log, i, k, r_start_pos, records, checks) ==
    IF i > k THEN [res |-> "Ok", val |-> records]
    ELSE LET e == ReadIndexFromEnd(idx, i * 4, 4, checks)
         IN  IF e.res # "Ok" THEN e
             ELSE LET start == r_start_pos + e.val
                      r     == ReadRecordFromEnd(log, start, e.val, checks)
                  IN  IF r.res # "Ok" THEN r
                      ELSE ReadAllFromEndLoop_Front(idx, log, i + 1, k, start,
                                                    <<r.val>> \o records, checks)

\* TransactionLog::read_all_from_end, from iteration i on
RECURSIVE ReadAllFromEndLoop(_, _, _, _, _, _, _)
ReadAllFromEndLoop(idx, log, i, k, r_start_pos, records, checks) ==
    IF i > k THEN [res |-> "Ok", val |-> records]
    ELSE LET e == ReadIndexFromEnd(idx, i * 4, 4, checks)
         IN  IF e.res # "Ok" THEN e
             ELSE LET start == r_start_pos + e.val
                      r     == ReadRecordFromEnd(log, start, e.val, checks)
                  IN  IF r.res # "Ok" THEN r
                      ELSE ReadAllFromEndLoop(idx, log, i + 1, k, start,
                                              Append(records, r.val), checks)

ReadAllFromEndOf(idx, log, number_from_end, checks) ==
    ReadAllFromEndLoop(idx, log, 1, number_from_end, 0, <<>>, checks)

(***************************************************************************)
(* Transaction log: inputs                                                 *)
(***************************************************************************)
\* the records handed to push: one of 28 bytes and the 55 bytes of
\* tests::commit_log_test, with a timestamp on two bytes and one on one
Records ==
    { OpFrom("Delete", 258, <<1>>, <<2, 2>>),
      OpFrom("Insert", 1, Rep(1, 10), Rep(1, 20)) }

NumEntries(f) == Len(f.bytes) \div 4

\* the k handed to the tail reads: none, every record there can be, one too many
ReadArgs == 0..(MaxPush + 1)

Panicked == ret.res = "Panic" \/ sret.res = "Panic"

\* no record is encoded or decoded on its own in the runs of the others
CodecIdle == codec = [step |-> "idle"]

\* no fingerprint is computed on its own in the runs of the others
RabinIdle == rabin = [op |-> "idle"]

\* the filter is not part of the runs of the log and of the skip list
CuckooIdle ==
    /\ table = <<>>
    /\ done = {}
    /\ calls = 0
    /\ cret = [op |-> "new", res |-> "Ok"]

\* the skip list is not part of the log's runs
SkipIdle ==
    /\ levels = 0
    /\ heap = <<>>
    /\ head = 0
    /\ size = 0
    /\ kv = <<>>
    /\ ops = 0
    /\ sret = [op |-> "new", res |-> "Ok"]

InitLog ==
    /\ overflow_checks \in BOOLEAN
    /\ dirKind \in {"absent", "dir", "file"}
    \* a directory may hold what a process that was killed left: lock and files
    /\ lockF \in (IF dirKind = "dir" THEN BOOLEAN ELSE {FALSE})
    /\ idxF = (IF lockF THEN EmptyFile ELSE NoFile)
    /\ logF = (IF lockF THEN EmptyFile ELSE NoFile)
    /\ idxBk = NoFile
    /\ logBk = NoFile
    /\ live = 0
    /\ insts = <<>>
    /\ pending = <<>>
    /\ pushed = <<>>
    /\ dirty = FALSE
    /\ ret = [op |-> "none", res |-> "Ok"]
    /\ SkipIdle
    /\ CuckooIdle
    /\ CodecIdle
    /\ RabinIdle

(***************************************************************************)
(* Transaction log: operations                                             *)
(***************************************************************************)
\* faulty variant: create does not look at log.lock
CreateFrom_IgnoreLock(lock, op) ==
    IF dirKind = "file"
    THEN /\ ret' = [op |-> op, res |-> "Err", locked |-> lockF]
         /\ UNCHANGED <<dirKind, idxF, logF, live, insts, pushed, dirty>>
         /\ lockF' = lock
    ELSE /\ dirKind' = "dir"
         /\ lockF' = TRUE
         /\ logF' = EmptyFile
         /\ idxF' = EmptyFile
         /\ live' = live + 1
         /\ insts' = Append(insts, [via |-> op, closed |-> FALSE])
         /\ pushed' = <<>>
         /\ dirty' = FALSE
         /\ ret' = [op |-> op, res |-> "Ok", locked |-> lockF]

\* TransactionLog::create from the state where log.lock is `lock`
CreateFrom(lock, op) ==
    IF dirKind = "file"
    THEN /\ ret' = [op |-> op, res |-> "Err", locked |-> lockF]
         /\ UNCHANGED <<dirKind, idxF, logF, live, insts, pushed, dirty>>
         /\ lockF' = lock
    ELSE /\ dirKind' = "dir"
         /\ IF lock
            THEN /\ ret' = [op |-> op, res |-> "Err", locked |-> lockF]
                 /\ lockF' = lock
                 /\ UNCHANGED <<idxF, logF, live, insts, pushed, dirty>>
            ELSE /\ lockF' = TRUE
                 /\ logF' = EmptyFile
                 /\ idxF' = EmptyFile
                 /\ live' = live + 1
                 /\ insts' = Append(insts, [via |-> op, closed |-> FALSE])
                 /\ pushed' = <<>>
                 /\ dirty' = FALSE
                 /\ ret' = [op |-> op, res |-> "Ok", locked |-> lockF]

Create ==
    /\ ~Panicked /\ pending = <<>>
    /\ live < MaxLive \/ lockF \/ dirKind = "file"
    /\ CreateFrom(lockF, "create")
    /\ UNCHANGED <<idxBk, logBk, pending>>
    /\ UNCHANGED notLog

\* TransactionLog::create_force: an existing log.lock is removed first
CreateForce ==
    /\ ~Panicked /\ pending = <<>>
    /\ live < MaxLive \/ dirKind = "file"
    /\ CreateFrom(FALSE, "create_force")
    /\ UNCHANGED <<idxBk, logBk, pending>>
    /\ UNCHANGED notLog

\* TransactionLog::close
Close ==
    /\ ~Panicked /\ pending = <<>> /\ live > 0
    /\ lockF' = FALSE
    /\ \E i \in 1..Len(insts) : insts' = [insts EXCEPT ![i].closed = TRUE]
    /\ ret' = [op |-> "close", res |-> IF lockF THEN "Ok" ELSE "Err"]
    /\ UNCHANGED <<dirKind, idxF, logF, idxBk, logBk, live, pending, pushed, dirty>>
    /\ UNCHANGED notLog

\* impl Drop for TransactionLog: close, its result ignored
Drop ==
    /\ ~Panicked /\ pending = <<>> /\ live > 0
    /\ lockF' = FALSE
    /\ live' = live - 1
    /\ \E i \in 1..Len(insts) :
          insts' = SubSeq(insts, 1, i - 1) \o SubSeq(insts, i + 1, Len(insts))
    /\ ret' = [op |-> "drop", res |-> "Ok"]
    /\ UNCHANGED <<dirKind, idxF, logF, idxBk, logBk, pending, pushed, dirty>>
    /\ UNCHANGED notLog

\* TransactionLog::remove_files: idx, then log, then lock, stopping at the first failure
RemoveFiles ==
    /\ ~Panicked /\ pending = <<>> /\ live > 0
    /\ idxF' = NoFile
    /\ logF' = IF idxF.exists THEN NoFile ELSE logF
    /\ lockF' = IF idxF.exists /\ logF.exists THEN FALSE ELSE lockF
    /\ ret' = [op |-> "remove_files",
               res |-> IF idxF.exists /\ logF.exists /\ lockF THEN "Ok" ELSE "Err"]
    /\ \E i \in 1..Len(insts) : insts' = [insts EXCEPT ![i].closed = TRUE]
    /\ UNCHANGED <<dirKind, idxBk, logBk, live, pending, pushed, dirty>>
    /\ UNCHANGED notLog

\* faulty variant: each backup is the copy of the other file
Backup_Crossed ==
    /\ ~Panicked /\ pending = <<>> /\ live > 0
    /\ IF ~idxF.exists \/ ~logF.exists
       THEN /\ ret' = [op |-> "backup", res |-> "Err"]
            /\ UNCHANGED <<idxBk, logBk>>
       ELSE /\ logBk' = CopyFile(idxF)
            /\ idxBk' = CopyFile(logF)
            /\ ret' = [op |-> "backup", res |-> "Ok"]
    /\ UNCHANGED <<dirKind, lockF, idxF, logF, live, insts, pending, pushed, dirty>>
    /\ UNCHANGED notLog

\* TransactionLog::backup
Backup ==
    /\ ~Panicked /\ pending = <<>> /\ live > 0
    /\ IF ~idxF.exists \/ ~logF.exists
       THEN /\ ret' = [op |-> "backup", res |-> "Err"]
            /\ UNCHANGED <<idxBk, logBk>>
       ELSE /\ logBk' = CopyFile(logF)
            /\ idxBk' = CopyFile(idxF)
            /\ ret' = [op |-> "backup", res |-> "Ok"]
    /\ UNCHANGED <<dirKind, lockF, idxF, logF, live, insts, pending, pushed, dirty>>
    /\ UNCHANGED notLog

\* faulty variant: the record is appended first, the index entry after it
PushIdx_RecordFirst(record) ==
    /\ ~Panicked /\ pending = <<>> /\ live > 0
    /\ NumEntries(idxF) < MaxPush
    /\ ~dirty
    /\ idxF.exists
    /\ logF' = AppendBytes(logF, RecordToBytes(record))
    /\ pending' = <<record>>
    /\ ret' = [op |-> "push", res |-> "Running"]
    /\ UNCHANGED <<dirKind, lockF, idxF, idxBk, logBk, live, insts, pushed, dirty>>
    /\ UNCHANGED notLog

\* TransactionLog::push, first append: the index entry.  A caller whose push
\* returned an error pushes no more until the log is created anew.
PushIdx(record) ==
    /\ ~Panicked /\ pending = <<>> /\ live > 0
    /\ NumEntries(idxF) < MaxPush
    /\ ~dirty
    /\ IF ~idxF.exists
       THEN /\ ret' = [op |-> "push", res |-> "Err"]
            /\ UNCHANGED <<idxF, pending>>
       ELSE /\ idxF' = AppendBytes(idxF, IndexToBytes(SizeInBytes(record)))
            /\ pending' = <<record>>
            /\ ret' = [op |-> "push", res |-> "Running"]
    /\ UNCHANGED <<dirKind, lockF, logF, idxBk, logBk, live, insts, pushed, dirty>>
    /\ UNCHANGED notLog

\* TransactionLog::push, second append: the record; returns the bytes written
PushData ==
    /\ pending # <<>>
    /\ IF ~logF.exists
       THEN /\ ret' = [op |-> "push", res |-> "Err"]
            /\ dirty' = TRUE
            /\ UNCHANGED <<logF, pushed>>
       ELSE /\ logF' = AppendBytes(logF, RecordToBytes(pending[1]))
            /\ pushed' = Append(pushed, pending[1])
            /\ ret' = [op |-> "push", res |-> "Ok", arg |-> pending[1],
                       val |-> Len(RecordToBytes(pending[1]))]
            /\ UNCHANGED dirty
    /\ pending' = <<>>
    /\ UNCHANGED <<dirKind, lockF, idxF, idxBk, logBk, live, insts>>
    /\ UNCHANGED notLog

\* TransactionLog::push, the append of the record fails (an I/O error) or the
\* process stops before it: the index entry stays, the record is not written
PushFail ==
    /\ pending # <<>>
    /\ pending' = <<>>
    /\ dirty' = TRUE
    /\ ret' = [op |-> "push", res |-> "Err"]
    /\ UNCHANGED <<dirKind, lockF, idxF, logF, idxBk, logBk, live, insts, pushed>>
    /\ UNCHANGED notLog

\* a call of TransactionLog::read_from_end
ReadFromEnd(k) ==
    /\ ~Panicked /\ pending = <<>> /\ live > 0
    /\ ret' = ReadFromEndOf(idxF, logF, k, overflow_checks)
                 @@ [op |-> "read_from_end", arg |-> k]
    /\ UNCHANGED <<dirKind, lockF, idxF, logF, idxBk, logBk, live, insts, pending, pushed, dirty>>
    /\ UNCHANGED notLog

\* a call of TransactionLog::read_all_from_end
ReadAllFromEnd(k) ==
    /\ ~Panicked /\ pending = <<>> /\ live > 0
    /\ ret' = ReadAllFromEndOf(idxF, logF, k, overflow_checks)
                 @@ [op |-> "read_all_from_end", arg |-> k]
    /\ UNCHANGED <<dirKind, lockF, idxF, logF, idxBk, logBk, live, insts, pending, pushed, dirty>>
    /\ UNCHANGED notLog

NextLog ==
    \/ Create
    \/ CreateForce
    \/ Close
    \/ Drop
    \/ RemoveFiles
    \/ Backup
    \/ \E r \in Records : PushIdx(r)
    \/ PushData
    \/ PushFail
    \/ \E k \in ReadArgs : ReadFromEnd(k)
    \/ \E k \in ReadArgs : ReadAllFromEnd(k)

SpecLog == InitLog /\ [][NextLog]_vars

(***************************************************************************)
(* Skip list (store/structures/skip_list.rs): nodes                        *)
(*                                                                         *)
(* The nodes live in an arena of MaxNodes addresses; 0 is None.  A node no *)
(* link path from the head reaches is dropped, as its Rc is.               *)
(***************************************************************************)
MaxLevels == 3      \* largest SkipList.levels
MaxNodes == 8       \* addresses of the arena
MaxOps == 5         \* insert and delete calls of one run

\* the keys and the values handed to the operations
Keys == {1, 2, 3}
Vals == {1, 2}
Addrs == 1..MaxNodes

Null == [used |-> FALSE, key |-> 0, val |-> 0, level |-> 0,
         next |-> 0, prev |-> 0, under |-> 0]

\* Node::new
NodeNew(key, val, level) ==
    [used |-> TRUE, key |-> key, val |-> val, level |-> level,
     next |-> 0, prev |-> 0, under |-> 0]

Free(h) == {a \in Addrs : ~h[a].used}

\* Rc::new: the address of a fresh node
Alloc(h) == CHOOSE a \in Free(h) : \A b \in Free(h) : a <= b

\* Node::with
NodeWith(h, a, key, val, level) == [h EXCEPT ![a] = NodeNew(key, val, level)]

RECURSIVE ReachFrom(_, _)
ReachFrom(h, S) ==
    LET T == S \cup {h[a].next : a \in S} \cup {h[a].prev : a \in S}
               \cup {h[a].under : a \in S}
        U == T \ {0}
    IN  IF U = S THEN S ELSE ReachFrom(h, U)

\* the nodes some chain of links from the head reaches
Reach(h, hd) == IF hd = 0 THEN {} ELSE ReachFrom(h, {hd})

\* drop of the Rc values nothing refers to any more
Collect(h, hd) == [a \in Addrs |-> IF a \in Reach(h, hd) THEN h[a] ELSE Null]

\* Node::set_next
SetNext(h, node, next_node) ==
    LET old_next == h[node].next
    IN  IF old_next = 0
        THEN [h EXCEPT ![node].next = next_node, ![next_node].prev = node]
        ELSE [h EXCEPT ![node].next = next_node, ![next_node].prev = node,
                       ![next_node].next = old_next, ![old_next].prev = next_node]

\* Node::set_prev
SetPrev(h, node, prev_node) ==
    LET old_prev == h[node].prev
    IN  IF old_prev = 0
        THEN [h EXCEPT ![node].prev = prev_node, ![prev_node].next = node]
        ELSE [h EXCEPT ![node].prev = prev_node, ![prev_node].next = node,
                       ![prev_node].prev = old_prev, ![old_prev].next = prev_node]

\* Node::set_under
SetUnder(h, node, under_node) == [h EXCEPT ![node].under = under_node]

\* Node::join_new
JoinNew(h, node, new_node) ==
    IF h[node].key < h[new_node].key THEN SetNext(h, node, new_node)
    ELSE IF h[node].key > h[new_node].key THEN SetPrev(h, node, new_node)
    ELSE h

\* Node::delete_level: the node is cut out of its level; its own links stay
DeleteLevel(h, n) ==
    LET p  == h[n].prev
        nx == h[n].next
    IN  IF p = 0 /\ nx = 0 THEN h
        ELSE IF p = 0 THEN [h EXCEPT ![nx].prev = 0]
        ELSE IF nx = 0 THEN [h EXCEPT ![p].next = 0]
        ELSE [h EXCEPT ![p].next = nx, ![nx].prev = p]

\* Node::delete, its loop from curr_lvl on
RECURSIVE NodeDeleteLoop(_, _, _)
NodeDeleteLoop(h, curr_node, curr_lvl) ==
    IF curr_lvl = 0 THEN h
    ELSE IF curr_node # 0
         THEN NodeDeleteLoop(DeleteLevel(h, curr_node), h[curr_node].under, curr_lvl - 1)
         ELSE NodeDeleteLoop(h, curr_node, curr_lvl - 1)

\* Node::delete
NodeDelete(h, node) == NodeDeleteLoop(h, node, h[node].level)

\* Node::set_value: the node and the nodes under it
RECURSIVE SetValue(_, _, _)
SetValue(h, n, val) ==
    LET h1 == [h EXCEPT ![n].val = val]
    IN  IF h[n].under # 0 THEN SetValue(h1, h[n].under, val) ELSE h1

\* Node::new_in_list, its loop from curr_lvl on: [heap, top]
RECURSIVE NewInListLoop(_, _, _, _, _, _, _)
NewInListLoop(h, key, val, total_lvl, new_low_node, curr_lvl, path) ==
    IF curr_lvl > total_lvl THEN [heap |-> h, top |-> new_low_node]
    ELSE LET new_node == Alloc(h)
             h1 == SetUnder(NodeWith(h, new_node, key, val, curr_lvl),
                            new_node, new_low_node)
             h2 == IF path # <<>> THEN JoinNew(h1, path[Len(path)], new_node) ELSE h1
             rest == IF path # <<>> THEN SubSeq(path, 1, Len(path) - 1) ELSE path
         IN  NewInListLoop(h2, key, val, total_lvl, new_node, curr_lvl + 1, rest)

\* Node::new_in_list
NewInList(h, key, val, total_lvl, curr_node, path) ==
    LET new_low_node == Alloc(h)
        h1 == NodeWith(h, new_low_node, key, val, 1)
        h2 == IF curr_node # 0 THEN JoinNew(h1, curr_node, new_low_node) ELSE h1
    IN  NewInListLoop(h2, key, val, total_lvl, new_low_node, 2, path)

\* Head::try_upd_head
TryUpdHead(h, hd, node) ==
    IF hd = 0 THEN node
    ELSE IF h[hd].key > h[node].key /\ h[hd].level <= h[node].level THEN node
    ELSE hd

(***************************************************************************)
(* Skip list: traversal                                                    *)
(***************************************************************************)
\* Node::compare, faulty variant: a greater node with a prev steps Backward
\* whatever the step before was, also right after a Forward step
Compare_Bounce(h, n, key, prev_step) ==
    IF h[n].key = key THEN [kind |-> "Found", node |-> n]
    ELSE IF h[n].key < key
    THEN IF h[n].next # 0 THEN [kind |-> "Forward", node |-> h[n].next]
         ELSE IF h[n].under # 0 THEN [kind |-> "Down", node |-> h[n].under]
         ELSE [kind |-> "NotFound", node |-> n]
    ELSE IF h[n].prev # 0 THEN [kind |-> "Backward", node |-> h[n].prev]
         ELSE IF h[n].under # 0 THEN [kind |-> "Down", node |-> h[n].under]
         ELSE [kind |-> "NotFound", node |-> n]

\* Node::compare
Compare(h, n, key, prev_step) ==
    IF h[n].key = key THEN [kind |-> "Found", node |-> n]
    ELSE IF h[n].key < key
    THEN IF h[n].next # 0 THEN [kind |-> "Forward", node |-> h[n].next]
         ELSE IF h[n].under # 0 THEN [kind |-> "Down", node |-> h[n].under]
         ELSE [kind |-> "NotFound", node |-> n]
    ELSE IF h[n].prev # 0
         THEN IF h[h[n].prev].under # 0 /\ prev_step = "FromLeft"
              THEN [kind |-> "Down", node |-> h[h[n].prev].under]
              ELSE IF prev_step \in {"FromAbove", "FromRight"}
              THEN [kind |-> "Backward", node |-> h[n].prev]
              ELSE [kind |-> "NotFound", node |-> n]
         ELSE IF h[n].under # 0 THEN [kind |-> "Down", node |-> h[n].under]
         ELSE [kind |-> "NotFound", node |-> n]

\* a walk that has taken this many steps has been in one (node, step) twice
Fuel == 4 * MaxNodes + 1

\* The loop of insert, search_in and delete_elem: where the walk from curr
\* ends, [kind, node, path], kind being Found, NotFound or Loop (no end).
RECURSIVE Walk(_, _, _, _, _, _)
Walk(h, curr, prev_step, key, path, fuel) ==
    LET c == Compare(h, curr, key, prev_step)
    IN  IF c.kind \in {"Found", "NotFound"}
        THEN [kind |-> c.kind, node |-> curr, path |-> path]
        ELSE IF fuel = 0 THEN [kind |-> "Loop", node |-> curr, path |-> path]
        ELSE IF c.kind = "Backward"
        THEN Walk(h, c.node, "FromRight", key, path, fuel - 1)
        ELSE IF c.kind = "Forward"
        THEN Walk(h, c.node, "FromLeft", key, path, fuel - 1)
        ELSE Walk(h, c.node, "FromAbove", key, Append(path, curr), fuel - 1)

\* SkipList::search: [res, out]
SearchOf(h, hd, key) ==
    IF hd = 0 THEN [res |-> "None", out |-> 0]
    ELSE LET w == Walk(h, hd, "FromHead", key, <<>>, Fuel)
         IN  IF w.kind = "Found" THEN [res |-> "Some", out |-> h[w.node].val]
             ELSE IF w.kind = "NotFound" THEN [res |-> "None", out |-> 0]
             ELSE [res |-> "Hang", out |-> 0]

(***************************************************************************)
(* Skip list: operations                                                   *)
(***************************************************************************)
\* SkipList::with_capacity: floor(log2(exp_cap))
RECURSIVE Log2Floor(_)
Log2Floor(n) == IF n <= 1 THEN 0 ELSE 1 + Log2Floor(n \div 2)

\* LevelGenerator::random(total): every height the sample can stop the loop at
RandomHeights(total) == 0..Max(total - 1, 0)

\* SkipList::inc_size: [size, panic]
IncSize(sz, checks) ==
    IF sz = -1 /\ checks THEN [size |-> sz, panic |-> TRUE]
    ELSE [size |-> sz + 1, panic |-> FALSE]

\* SkipList::dec_size: 0 - 1 panics under overflow checks and wraps without them
DecSize(sz, checks) ==
    IF sz = 0 /\ checks THEN [size |-> sz, panic |-> TRUE]
    ELSE [size |-> sz - 1, panic |-> FALSE]

Outcome(h, hd, sz, res, out) ==
    [heap |-> h, head |-> hd, size |-> sz, res |-> res, out |-> out]

\* SkipList::insert, the sampled height being ht: [heap, head, size, res, out]
InsertOf(h, hd, sz, lv, key, val, ht, checks) ==
    IF hd = 0
    THEN LET r == NewInList(h, key, val, lv + 1, 0, <<>>)
             s == IncSize(sz, checks)
         IN  IF s.panic
             THEN Outcome(r.heap, TryUpdHead(r.heap, hd, r.top), sz, "Panic", 0)
             ELSE Outcome(r.heap, TryUpdHead(r.heap, hd, r.top), s.size, "None", 0)
    ELSE LET w == Walk(h, hd, "FromHead", key, <<>>, Fuel)
         IN  IF w.kind = "Loop" THEN Outcome(h, hd, sz, "Hang", 0)
             ELSE IF w.kind = "Found"
             THEN Outcome(SetValue(h, w.node, val), hd, sz, "Some", h[w.node].val)
             ELSE LET r == NewInList(h, key, val, ht + 1, w.node, w.path)
                      s == IncSize(sz, checks)
                  IN  IF s.panic
                      THEN Outcome(r.heap, TryUpdHead(r.heap, hd, r.top), sz, "Panic", 0)
                      ELSE Outcome(r.heap, TryUpdHead(r.heap, hd, r.top), s.size,
                                   "None", 0)

\* SkipList::delete, head branch: the first node under the head's node that
\* has a neighbour on its level, as that neighbour (prev before next); 0 if none
RECURSIVE NeighbourUnder(_, _)
NeighbourUnder(h, under) ==
    IF under = 0 THEN 0
    ELSE IF h[under].prev = 0 /\ h[under].next = 0 THEN NeighbourUnder(h, h[under].under)
    ELSE IF h[under].prev # 0 THEN h[under].prev
    ELSE h[under].next

\* SkipList::delete, head branch: the node the head is moved to, n itself or
\* the last of the nodes built over it (each has n as its under)
PromoteOf(h, n, lv) ==
    IF h[n].level + 1 <= lv
    THEN LET top_node == Alloc(h)
         IN  [heap |-> SetUnder(NodeWith(h, top_node, h[n].key, h[n].val, lv), top_node, n),
              top |-> top_node]
    ELSE [heap |-> h, top |-> n]

\* SkipList::delete_elem: [heap, res, out]
DeleteElem(h, key, f) ==
    LET w == Walk(h, f, "FromHead", key, <<>>, Fuel)
    IN  IF w.kind = "Loop" THEN [heap |-> h, res |-> "Hang", out |-> 0]
        ELSE IF w.kind = "Found"
        THEN [heap |-> NodeDelete(h, w.node), res |-> "Some", out |-> h[w.node].val]
        ELSE [heap |-> h, res |-> "None", out |-> 0]

\* SkipList::delete: [heap, head, size, res, out]
DeleteOf(h, hd, sz, lv, key, checks) ==
    IF hd = 0 THEN Outcome(h, hd, sz, "None", 0)
    ELSE LET f == hd
             s == DecSize(sz, checks)
         IN  IF h[f].key = key
             THEN IF h[f].next = 0
                  THEN LET n == NeighbourUnder(h, h[f].under)
                       IN  IF n # 0
                           THEN LET h1 == NodeDelete(h, f)
                                    p  == PromoteOf(h1, n, lv)
                                IN  IF s.panic THEN Outcome(h1, hd, sz, "Panic", 0)
                                    ELSE Outcome(p.heap, p.top, s.size, "Some", h[f].val)
                           ELSE IF s.panic THEN Outcome(h, hd, sz, "Panic", 0)
                                ELSE Outcome(h, 0, s.size, "Some", h[f].val)
                  ELSE LET h1 == NodeDelete(h, f)
                       IN  IF s.panic THEN Outcome(h1, h[f].next, sz, "Panic", 0)
                           ELSE Outcome(h1, h[f].next, s.size, "Some", h[f].val)
             ELSE IF s.panic THEN Outcome(h, hd, sz, "Panic", 0)
                  ELSE LET d == DeleteElem(h, key, f)
                       IN  Outcome(d.heap, hd, s.size, d.res, d.out)

\* SkipListDistinctIterator::new: the node under the head's node that has no under
RECURSIVE LowerNode(_, _)
LowerNode(h, n) == IF h[n].under = 0 THEN n ELSE LowerNode(h, h[n].under)

\* Node::find_first: the node the prev links from n end at; 0 if they never end
RECURSIVE FindFirst(_, _, _)
FindFirst(h, n, fuel) ==
    IF h[n].prev = 0 THEN n
    ELSE IF fuel = 0 THEN 0
    ELSE FindFirst(h, h[n].prev, fuel - 1)

\* SkipListDistinctIterator::next until it returns None: the keys it yields
\* from curr on, <<0>> at the end if the next links never end
RECURSIVE DistinctKeysFrom(_, _, _)
DistinctKeysFrom(h, curr, fuel) ==
    IF curr = 0 THEN <<>>
    ELSE IF fuel = 0 THEN <<0>>
    ELSE <<h[curr].key>> \o DistinctKeysFrom(h, h[curr].next, fuel - 1)

\* SkipList::iter() collected: [res, keys]
IterOf(h, hd) ==
    IF hd = 0 THEN [res |-> "Ok", keys |-> <<>>]
    ELSE LET first == FindFirst(h, LowerNode(h, hd), Fuel)
             keys  == IF first = 0 THEN <<0>> ELSE DistinctKeysFrom(h, first, Fuel)
         IN  IF keys # <<>> /\ keys[Len(keys)] = 0
             THEN [res |-> "Hang", keys |-> <<>>]
             ELSE [res |-> "Ok", keys |-> keys]

\* the log is not part of the skip list's runs
LogIdle ==
    /\ dirKind = "absent"
    /\ lockF = FALSE
    /\ idxF = NoFile
    /\ logF = NoFile
    /\ idxBk = NoFile
    /\ logBk = NoFile
    /\ live = 0
    /\ insts = <<>>
    /\ pending = <<>>
    /\ pushed = <<>>
    /\ dirty = FALSE
    /\ ret = [op |-> "none", res |-> "Ok"]

\* what the skip list's operations do not touch
notSkip == <<overflow_checks, logVars, levels, cuckooVars, codec, rabin>>

\* SkipList::with_capacity(exp_cap)
InitSkip ==
    /\ overflow_checks \in BOOLEAN
    /\ \E exp_cap \in 1..(2 ^ MaxLevels) : levels = Log2Floor(exp_cap)
    /\ heap = [a \in Addrs |-> Null]
    /\ head = 0
    /\ size = 0
    /\ kv = [k \in Keys |-> 0]
    /\ ops = 0
    /\ sret = [op |-> "new", res |-> "Ok"]
    /\ LogIdle
    /\ CuckooIdle
    /\ CodecIdle
    /\ RabinIdle

Stopped == sret.res \in {"Panic", "Hang"}

\* how many keys a map holds: the keys inserted and not deleted since
KeysPresent(m) == Cardinality({k \in Keys : m[k] # 0})

\* a call of SkipList::insert
Insert(key, val) ==
    /\ ~Stopped
    /\ ops < MaxOps
    /\ ops' = ops + 1
    /\ \E ht \in RandomHeights(levels) :
          LET r == InsertOf(heap, head, size, levels, key, val, ht, overflow_checks)
          IN  /\ Cardinality(Free(heap)) >= (IF head = 0 THEN levels ELSE ht) + 1
              /\ heap' = Collect(r.heap, r.head)
              /\ head' = r.head
              /\ size' = r.size
              /\ sret' = [op |-> "insert", key |-> key, val |-> val,
                          res |-> r.res, out |-> r.out,
                          pre |-> kv[key], size0 |-> size,
                          keys0 |-> KeysPresent(kv),
                          found0 |-> SearchOf(heap, head, key)]
    /\ kv' = [kv EXCEPT ![key] = val]
    /\ UNCHANGED notSkip

\* a call of SkipList::delete
Delete(key) ==
    /\ ~Stopped
    /\ ops < MaxOps
    /\ ops' = ops + 1
    /\ Cardinality(Free(heap)) >= 1
    /\ LET r == DeleteOf(heap, head, size, levels, key, overflow_checks)
       IN  /\ heap' = Collect(r.heap, r.head)
           /\ head' = r.head
           /\ size' = r.size
           /\ sret' = [op |-> "delete", key |-> key, val |-> 0,
                       res |-> r.res, out |-> r.out,
                       pre |-> kv[key], size0 |-> size,
                          keys0 |-> KeysPresent(kv),
                       found0 |-> SearchOf(heap, head, key)]
    /\ kv' = [kv EXCEPT ![key] = 0]
    /\ UNCHANGED notSkip

\* a call of SkipList::search
Search(key) ==
    /\ ~Stopped
    /\ LET r == SearchOf(heap, head, key)
       IN  sret' = [op |-> "search", key |-> key, val |-> 0,
                    res |-> r.res, out |-> r.out,
                    pre |-> kv[key], size0 |-> size,
                    keys0 |-> KeysPresent(kv), found0 |-> r]
    /\ UNCHANGED <<heap, head, size, kv, ops>>
    /\ UNCHANGED notSkip

\* a walk of SkipList::iter() to its end
Iter ==
    /\ ~Stopped
    /\ LET r == IterOf(heap, head)
       IN  sret' = [op |-> "iter", key |-> 0, val |-> 0,
                    res |-> r.res, out |-> r.keys,
                    pre |-> 0, size0 |-> size,
                    keys0 |-> KeysPresent(kv), found0 |-> [res |-> "None", out |-> 0]]
    /\ UNCHANGED <<heap, head, size, kv, ops>>
    /\ UNCHANGED notSkip

NextSkip ==
    \/ \E k \in Keys, v \in Vals : Insert(k, v)
    \/ \E k \in Keys : Delete(k)
    \/ \E k \in Keys : Search(k)
    \/ Iter

SpecSkip == InitSkip /\ [][NextSkip]_vars

\* SkipList::clear with Head::clear: [heap, head, size]
ClearOf(h, hd, sz) == [heap |-> h, head |-> 0, size |-> sz]

\* a call of SkipList::clear
Clear ==
    /\ ~Stopped
    /\ ops < MaxOps
    /\ ops' = ops + 1
    /\ LET r == ClearOf(heap, head, size)
       IN  /\ heap' = Collect(r.heap, r.head)
           /\ head' = r.head
           /\ size' = r.size
    /\ sret' = [op |-> "clear", key |-> 0, val |-> 0,
                res |-> "Ok", out |-> 0,
                pre |-> 0, size0 |-> size,
                keys0 |-> KeysPresent(kv), found0 |-> [res |-> "None", out |-> 0]]
    /\ kv' = [k \in Keys |-> 0]
    /\ UNCHANGED notSkip

\* the skip list's calls, clear among them
NextClear ==
    \/ \E k \in Keys, v \in Vals : Insert(k, v)
    \/ \E k \in Keys : Delete(k)
    \/ \E k \in Keys : Search(k)
    \/ Iter
    \/ Clear

SpecClear == InitSkip /\ [][NextClear]_vars

(***************************************************************************)
(* MemTable (store/memory/memtable.rs)                                     *)
(*                                                                         *)
(* MemTable.data is the skip list of the skip-list variables; kv holds,    *)
(* for every key, the value of its last add, 0 before any add and -1 after *)
(* a remove; sret holds the last call.                                     *)
(***************************************************************************)
\* MemTable::new(exp_capacity, limit_items, limit_bytes)
InitMem ==
    /\ overflow_checks = TRUE
    /\ \E exp_cap \in 1..(2 ^ MaxLevels) : levels = Log2Floor(exp_cap)
    /\ heap = [a \in Addrs |-> Null]
    /\ head = 0
    /\ size = 0
    /\ kv = [k \in Keys |-> 0]
    /\ ops = 0
    /\ sret = [op |-> "mem_new", res |-> "Ok"]
    /\ LogIdle
    /\ CuckooIdle
    /\ CodecIdle
    /\ RabinIdle

\* MemTable::find: the body is `None`
MemFindOf(key) == [res |-> "None", out |-> 0]

\* MemTable::add: the body is `Ok(MemTableResult::Ok)`, the insert into data
\* is commented out
MemAdd(key, val) ==
    /\ sret' = [op |-> "add", key |-> key, val |-> val, res |-> "Ok", out |-> 0]
    /\ kv' = [kv EXCEPT ![key] = val]
    /\ UNCHANGED <<heap, head, size, ops>>
    /\ UNCHANGED notSkip

\* MemTable::find
MemFind(key) ==
    /\ LET r == MemFindOf(key)
       IN  sret' = [op |-> "find", key |-> key, val |-> 0, res |-> r.res, out |-> r.out]
    /\ UNCHANGED <<heap, head, size, kv, ops>>
    /\ UNCHANGED notSkip

\* MemTable::remove: the body is `Ok(MemTableResult::Ok)`
MemRemove(key) ==
    /\ sret' = [op |-> "remove", key |-> key, val |-> 0, res |-> "Ok", out |-> 0]
    /\ kv' = [kv EXCEPT ![key] = -1]
    /\ UNCHANGED <<heap, head, size, ops>>
    /\ UNCHANGED notSkip

NextMem ==
    \/ \E k \in Keys, v \in Vals : MemAdd(k, v)
    \/ \E k \in Keys : MemFind(k)
    \/ \E k \in Keys : MemRemove(k)

SpecMem == InitMem /\ [][NextMem]_vars

(***************************************************************************)
(* Cuckoo filter (store/structures/cuckoo_filter.rs)                       *)
(***************************************************************************)
MaxCalls == 3       \* insert calls of one run
EvictionBudget == 512

\* the table and bucket capacities a filter is built with
Caps == {1, 2, 4}
BucketCaps == {1, 2}

\* An item is held as what the filter takes from it: find_hash(item) and
\* fpr.calculate(item.to_bytes()), both i64.
Items == [hash : {-1, 0}, fpr : {1, 3}]

\* a & b and a ^ b on numbers below 2^16
RECURSIVE AndN(_, _)
AndN(a, b) ==
    IF a = 0 \/ b = 0 THEN 0
    ELSE (a % 2) * (b % 2) + 2 * AndN(a \div 2, b \div 2)

RECURSIVE XorN(_, _)
XorN(a, b) ==
    IF a = 0 THEN b ELSE IF b = 0 THEN a
    ELSE ((a + b) % 2) + 2 * XorN(a \div 2, b \div 2)

\* faulty variant: the sum in place of the exclusive or
XorI64_Sum(a, b) == a + b

\* a ^ b on i64 values that fit 16 bits, by their two's complement
XorI64(a, b) ==
    LET x == XorN(a % 65536, b % 65536)
    IN  IF x >= 32768 THEN x - 65536 ELSE x

\* CuckooFilter::bucket on a table of len buckets: hash & (len - 1)
BucketOf(hash, len) == AndN(hash % 65536, len - 1)

\* Vec::insert(index, element): the elements from index on move right
VecInsert(q, index, element) ==
    SubSeq(q, 1, index) \o <<element>> \o SubSeq(q, index + 1, Len(q))

\* Bucket::new; a slot is <<>> (None) or <<v>> (Some(v))
BucketNew(cap) == [base |-> [i \in 1..cap |-> <<>>], idx |-> 0, cap |-> cap]

\* Bucket::contains
BucketContains(b, fp) == \E i \in 1..Len(b.base) : b.base[i] = <<fp>>

\* Bucket::is_empty, Bucket::is_full
IsEmpty(b) == b.idx = 0
IsFull(b) == b.idx = b.cap

\* Bucket::insert
BucketInsert(b, v) ==
    IF BucketContains(b, v) THEN b
    ELSE [b EXCEPT !.base = VecInsert(@, b.idx, <<v>>), !.idx = @ + 1]

\* faulty variant: the new value takes the slot of the old one, which is gone
BucketSwap_Replace(b, v, idx_swap) ==
    [bucket  |-> [b EXCEPT !.base[idx_swap + 1] = <<v>>],
     old_val |-> IF idx_swap < Len(b.base) THEN b.base[idx_swap + 1] ELSE <<>>]

\* Bucket::swap, idx_swap being the slot gen_range(0, idx) gave: [bucket, old_val]
BucketSwap(b, v, idx_swap) ==
    [bucket  |-> [b EXCEPT !.base = VecInsert(@, idx_swap, <<v>>)],
     old_val |-> IF idx_swap < Len(b.base) THEN b.base[idx_swap + 1] ELSE <<>>]

\* Table::new
TableNew(cap, bucket_cap) == [i \in 1..cap |-> BucketNew(bucket_cap)]

\* Table::contains
TableContains(t, idx, v) == idx < Len(t) /\ BucketContains(t[idx + 1], v)

\* faulty variant: a full bucket takes the value as well
TableInsert_NoFullCheck(t, idx, v) ==
    IF Len(t) <= idx THEN [table |-> t, res |-> "Fail", at |-> idx]
    ELSE [table |-> [t EXCEPT ![idx + 1] = BucketInsert(@, v)],
          res |-> "Done", at |-> idx]

\* Table::insert: [table, res, at]
TableInsert(t, idx, v) ==
    IF Len(t) <= idx THEN [table |-> t, res |-> "Fail", at |-> idx]
    ELSE IF IsFull(t[idx + 1]) THEN [table |-> t, res |-> "Full", at |-> idx]
    ELSE [table |-> [t EXCEPT ![idx + 1] = BucketInsert(@, v)],
          res |-> "Done", at |-> idx]

\* the slot gen_range(0, n) gives at the swap number i of a call: the samples
\* of one call are taken as first, first + 1, first + 2, ... (modulo n)
SlotAt(first, i, n) == (first + i) % n

\* CuckooFilter::insert, one turn of the loop `while idx < 512` from the loop's
\* variables st = [table, idx, num, v, res, at]; res is "Running" until a return
EvictStep(st, first) ==
    IF st.res # "Running" THEN st
    ELSE IF st.table[st.num + 1].idx = 0 THEN [st EXCEPT !.res = "Panic"]
    ELSE LET b  == st.table[st.num + 1]
             sw == BucketSwap(b, st.v, SlotAt(first, st.idx, b.idx))
             t1 == [st.table EXCEPT ![st.num + 1] = sw.bucket]
         IN  IF sw.old_val = <<>>
             THEN [st EXCEPT !.table = t1, !.res = "Fail", !.idx = @ + 1]
             ELSE LET next_v   == sw.old_val[1]
                      next_num == BucketOf(XorI64(next_v, st.num), Len(t1))
                      r        == TableInsert(t1, next_num, st.v)
                  IN  IF r.res = "Full"
                      THEN [st EXCEPT !.table = t1, !.idx = @ + 1,
                                      !.v = next_v, !.num = next_num]
                      ELSE [st EXCEPT !.table = r.table, !.idx = @ + 1,
                                      !.res = r.res, !.at = r.at]

\* n turns of the loop, taken as two halves
RECURSIVE EvictTurns(_, _, _)
EvictTurns(st, n, first) ==
    IF n = 0 \/ st.res # "Running" THEN st
    ELSE IF n = 1 THEN EvictStep(st, first)
    ELSE LET half == EvictTurns(st, n \div 2, first)
         IN  EvictTurns(half, n - n \div 2, first)

\* CuckooFilter::insert, the loop and the Full after it: [table, res, at, swaps]
EvictLoop(t, num, v, first) ==
    LET st == EvictTurns([table |-> t, idx |-> 0, num |-> num, v |-> v,
                          res |-> "Running", at |-> num],
                         EvictionBudget, first)
    IN  [table |-> st.table,
         res   |-> IF st.res = "Running" THEN "Full" ELSE st.res,
         at    |-> st.at,
         swaps |-> st.idx]

\* faulty variant: Full as soon as the first bucket is full
CuckooInsertOf_OneBucket(t, v, bool_rand, first) ==
    LET r1 == TableInsert(t, BucketOf(v.hash, Len(t)), v.fpr)
    IN  [table |-> r1.table, res |-> r1.res, at |-> r1.at, swaps |-> 0,
         full1 |-> r1.res = "Full", full2 |-> FALSE]

\* CuckooFilter::insert: [table, res, at, swaps, full1, full2]
CuckooInsertOf(t, v, bool_rand, first) ==
    LET fpr    == v.fpr
        bucket == BucketOf(v.hash, Len(t))
        r1     == TableInsert(t, bucket, fpr)
        fpr_num == BucketOf(XorI64(bucket, fpr), Len(t))
        r2     == TableInsert(t, fpr_num, fpr)
        num    == IF bool_rand THEN bucket ELSE fpr_num
        r3     == EvictLoop(t, num, fpr, first)
    IN  IF r1.res # "Full"
        THEN [table |-> r1.table, res |-> r1.res, at |-> r1.at, swaps |-> 0,
              full1 |-> FALSE, full2 |-> FALSE]
        ELSE IF r2.res # "Full"
        THEN [table |-> r2.table, res |-> r2.res, at |-> r2.at, swaps |-> 0,
              full1 |-> TRUE, full2 |-> FALSE]
        ELSE [table |-> r3.table, res |-> r3.res, at |-> r3.at, swaps |-> r3.swaps,
              full1 |-> TRUE, full2 |-> TRUE]

\* CuckooFilter::contains
CuckooContainsOf(t, val) ==
    LET idx1 == BucketOf(val.hash, Len(t))
        idx2 == BucketOf(XorI64(idx1, val.fpr), Len(t))
    IN  TableContains(t, idx1, val.fpr) \/ TableContains(t, idx2, val.fpr)

\* what the filter's operations do not touch
notCuckoo == <<overflow_checks, logVars, skipVars, codec, rabin>>

\* CuckooFilter::new_with(cap, lf, bucket_cap)
InitCuckoo ==
    /\ overflow_checks = TRUE
    /\ \E cap \in Caps, bucket_cap \in BucketCaps : table = TableNew(cap, bucket_cap)
    /\ done = {}
    /\ calls = 0
    /\ cret = [op |-> "new", res |-> "Ok"]
    /\ LogIdle
    /\ SkipIdle
    /\ CodecIdle
    /\ RabinIdle

CuckooStopped == cret.res \in {"Panic", "Fail"}

\* a call of CuckooFilter::insert; contains leaves the filter as it is, so
\* the inserts of a run are taken before its contains calls
CuckooInsert(v) ==
    /\ ~CuckooStopped
    /\ cret.op # "contains"
    /\ calls < MaxCalls
    /\ calls' = calls + 1
    /\ \E bool_rand \in BOOLEAN, first \in 0..(table[1].cap - 1) :
          LET r == CuckooInsertOf(table, v, bool_rand, first)
          IN  /\ table' = r.table
              /\ done' = IF r.res = "Done" THEN done \cup {v} ELSE done
              /\ cret' = [op |-> "insert", item |-> v, res |-> r.res, at |-> r.at,
                          swaps |-> r.swaps, full1 |-> r.full1, full2 |-> r.full2,
                          at_full |-> IsFull(table[r.at + 1]), call |-> calls + 1]
    /\ UNCHANGED notCuckoo

\* a call of CuckooFilter::contains
CuckooContains(v) ==
    /\ ~CuckooStopped
    /\ cret' = [op |-> "contains", item |-> v,
                res |-> IF CuckooContainsOf(table, v) THEN "true" ELSE "false",
                at |-> 0, swaps |-> 0, full1 |-> FALSE, full2 |-> FALSE,
                at_full |-> FALSE, call |-> calls]
    /\ UNCHANGED <<table, done, calls>>
    /\ UNCHANGED notCuckoo

NextCuckoo ==
    \/ \E v \in Items : CuckooInsert(v)
    \/ \E v \in Items : CuckooContains(v)

SpecCuckoo == InitCuckoo /\ [][NextCuckoo]_vars

(***************************************************************************)
(* File segment reads on their own (store/files.rs)                        *)
(*                                                                         *)
(* The file at the path is held in logF, the last result in ret.           *)
(***************************************************************************)
MaxAppend == 2      \* items appended to the file

\* the u64 arguments of read_slice: offsets and lengths around the records of
\* 28 and 55 bytes, and 2^64 - 1 and 2^64 - 28 as the residues -1 and -28
SliceArgs == {0, 1, 27, 28, 55, 56, -1, -28}

InitFiles ==
    /\ overflow_checks \in BOOLEAN
    /\ logF \in {NoFile, EmptyFile}
    /\ dirKind = "dir"
    /\ lockF = FALSE
    /\ idxF = NoFile
    /\ idxBk = NoFile
    /\ logBk = NoFile
    /\ live = 0
    /\ insts = <<>>
    /\ pending = <<>>
    /\ pushed = <<>>
    /\ dirty = FALSE
    /\ ret = [op |-> "none", res |-> "Ok"]
    /\ SkipIdle
    /\ CuckooIdle
    /\ CodecIdle
    /\ RabinIdle

notFile == <<dirKind, lockF, idxF, idxBk, logBk, live, insts, pending, pushed, dirty>>

\* append_item: OpenOptions without create fails on a missing file
AppendItem(record) ==
    /\ ret.res # "Panic"
    /\ Len(logF.bytes) < MaxAppend * 28
    /\ IF logF.exists
       THEN /\ logF' = AppendBytes(logF, RecordToBytes(record))
            /\ ret' = [op |-> "append_item", res |-> "Ok"]
       ELSE /\ ret' = [op |-> "append_item", res |-> "Err"]
            /\ UNCHANGED logF
    /\ UNCHANGED notFile
    /\ UNCHANGED notLog

\* read_slice::<Record>(p, from, number)
ReadSlice(from, number) ==
    /\ ret.res # "Panic"
    /\ ret' = ReadSliceRecord(logF, from, number, overflow_checks)
                 @@ [op |-> "read_slice", from |-> from, number |-> number]
    /\ UNCHANGED logF
    /\ UNCHANGED notFile
    /\ UNCHANGED notLog

NextFiles ==
    \/ \E r \in Records : AppendItem(r)
    \/ \E from \in SliceArgs, number \in SliceArgs : ReadSlice(from, number)

SpecFiles == InitFiles /\ [][NextFiles]_vars

(***************************************************************************)
(* Record codec on its own (store/log/transaction_log.rs)                  *)
(***************************************************************************)
\* the keys, values and clock readings the records are built from; ten and
\* fifteen zero bytes are those of tests::record_test
CodecKeys == {<<>>, <<1>>, <<0, 7>>, Rep(0, 10)}
CodecVals == {<<>>, <<2>>, <<3, 4, 5>>, Rep(0, 15)}
Timestamps == {0, 258}
\* first bytes that are no operation
BadTags == {0, 4}

notCodec == <<overflow_checks, logVars, skipVars, cuckooVars, rabin>>

InitCodec ==
    /\ overflow_checks = TRUE
    /\ CodecIdle
    /\ RabinIdle
    /\ LogIdle
    /\ SkipIdle
    /\ CuckooIdle

\* the state after a Record is built
Built(r) == [step |-> "record", rec |-> r]

\* Record::insert_record, the clock giving ts
InsertRecord(ts, key, val) ==
    /\ codec' = Built(OpFrom("Insert", ts, key, val))
    /\ UNCHANGED notCodec

\* Record::delete_record
DeleteRecord(ts, key, val) ==
    /\ codec' = Built(OpFrom("Delete", ts, key, val))
    /\ UNCHANGED notCodec

\* Record::lock_record
LockRecord(ts, key, val) ==
    /\ codec' = Built(OpFrom("Lock", ts, key, val))
    /\ UNCHANGED notCodec

\* Record::to_bytes of the record built
EncodeRecord ==
    /\ codec.step = "record"
    /\ codec' = [step |-> "bytes", rec |-> codec.rec,
                 bytes |-> RecordToBytes(codec.rec), whole |-> TRUE]
    /\ UNCHANGED notCodec

\* the input of a later from_bytes is the first n bytes only
Truncate(n) ==
    /\ codec.step = "bytes" /\ codec.whole
    /\ n < Len(codec.bytes)
    /\ codec' = [codec EXCEPT !.bytes = SubSeq(@, 1, n), !.whole = FALSE]
    /\ UNCHANGED notCodec

\* the bytes that follow a record in its file
Trailers == {<<9>>, <<1, 0>>}

\* the input of a later from_bytes runs on past the record's last byte
Extend(more) ==
    /\ codec.step = "bytes" /\ codec.whole
    /\ codec' = [codec EXCEPT !.bytes = @ \o more, !.whole = FALSE]
    /\ UNCHANGED notCodec

\* the input of a later from_bytes has another first byte
Retag(b) ==
    /\ codec.step = "bytes" /\ codec.whole
    /\ codec' = [codec EXCEPT !.bytes = <<b>> \o Tail(@), !.whole = FALSE]
    /\ UNCHANGED notCodec

\* Record::from_bytes of the bytes
DecodeRecord ==
    /\ codec.step = "bytes"
    /\ codec' = [step |-> "decoded", rec |-> codec.rec, bytes |-> codec.bytes,
                 whole |-> codec.whole, dec |-> RecordFromBytes(codec.bytes)]
    /\ UNCHANGED notCodec

\* the u32 values an Index is created from (TLC's integers stop at 2^31 - 1)
IndexVals == {0, 1, 258, 65536, 2147483647}
\* the bytes left over after the last whole chunk of a packed array
Fragments == {<<>>, <<9>>, <<0, 9>>, <<0, 0, 9>>}
\* the Index arrays packed into bytes
IndexArrays == {<<>>} \cup {<<v>> : v \in IndexVals}
                  \cup {<<v, w>> : v \in {1, 258}, w \in IndexVals}

\* Index::create(v).to_bytes()
EncodeIndex(v) ==
    /\ codec' = [step |-> "index_bytes", val |-> v, bytes |-> IndexToBytes(v)]
    /\ UNCHANGED notCodec

\* Index::from_bytes of the bytes of an Index
DecodeIndex ==
    /\ codec.step = "index_bytes"
    /\ codec' = [step |-> "index_decoded", val |-> codec.val, bytes |-> codec.bytes,
                 dec |-> IndexFromBytes(codec.bytes)]
    /\ UNCHANGED notCodec

\* Index::from_bytes_array of the packed array vs followed by frag
DecodeIndexArray(vs, frag) ==
    /\ codec' = [step |-> "array_decoded", bytes |-> ArrayToBytes(vs) \o frag,
                 dec |-> IndexFromBytesArray(ArrayToBytes(vs) \o frag)]
    /\ UNCHANGED notCodec

NextCodec ==
    \/ \E v \in IndexVals : EncodeIndex(v)
    \/ DecodeIndex
    \/ \E vs \in IndexArrays, frag \in Fragments : DecodeIndexArray(vs, frag)
    \/ \E ts \in Timestamps, key \in CodecKeys, val \in CodecVals : InsertRecord(ts, key, val)
    \/ \E ts \in Timestamps, key \in CodecKeys, val \in CodecVals : DeleteRecord(ts, key, val)
    \/ \E ts \in Timestamps, key \in CodecKeys, val \in CodecVals : LockRecord(ts, key, val)
    \/ EncodeRecord
    \/ \E n \in 0..(25 + 10 + 15) : Truncate(n)
    \/ \E more \in Trailers : Extend(more)
    \/ \E b \in BadTags : Retag(b)
    \/ DecodeRecord

SpecCodec == InitCodec /\ [][NextCodec]_vars

(***************************************************************************)
(* Polynomials over GF(2) (store/structures/fingerprint.rs)                *)
(*                                                                         *)
(* A Polynomial is its Vec of degrees, in the order the Vec holds them.    *)
(* An i64 is the set of the positions of its one bits, 0..63.              *)
(***************************************************************************)
SetMax(S) == CHOOSE x \in S : \A y \in S : y <= x

Range(q) == {q[i] : i \in 1..Len(q)}

\* sort_by(reverse) and then dedup_by(==): the elements, largest first, once each
RECURSIVE SortDedup(_)
SortDedup(S) == IF S = {} THEN <<>> ELSE <<SetMax(S)>> \o SortDedup(S \ {SetMax(S)})

\* vec_rem_all: retain keeps the order of src
VecRemAll(src, dst) == SelectSeq(src, LAMBDA el : el \notin Range(dst))

\* vec_add_all
VecAddAll(src, dst) == SortDedup(Range(src \o dst))

\* the one bits of a u8
ByteBits(b) == {i \in 0..7 : (b \div (2 ^ i)) % 2 = 1}

\* Polynomial::from_u64 of the i64 with the one bits val
FromU64(val) == SortDedup({el \in 0..63 : el \in val})

\* check_bit: bytes.len() - 1 - idx / 8 is a usize subtraction, which panics
\* under overflow checks; when it wraps, get() finds no byte there
CheckBitOverflows(bytes, idx) == Len(bytes) - 1 - (idx \div 8) < 0

CheckBit(bytes, idx) ==
    /\ ~CheckBitOverflows(bytes, idx)
    /\ (idx % 8) \in ByteBits(bytes[Len(bytes) - (idx \div 8)])

\* Polynomial::from_bytes: Ok(polynomial) | Panic
FromBytes(bytes, degree, checks) ==
    IF checks /\ \E el \in 0..(degree - 1) : CheckBitOverflows(bytes, el)
    THEN [res |-> "Panic"]
    ELSE [res |-> "Ok",
          val |-> SortDedup({el \in 0..(degree - 1) : CheckBit(bytes, el)} \cup {degree})]

\* Polynomial::from_degrees
FromDegrees(degrees) == SortDedup(Range(degrees))

\* Polynomial::empty
Empty == <<>>

\* Polynomial::degree
Degree(p) == IF p = <<>> THEN -1 ELSE p[1]

\* `1 << el` on i64 with el outside 0..63
ShlOverflows(p) == \E i \in 1..Len(p) : p[i] < 0 \/ p[i] > 63

\* Polynomial::to_i64 (a shift count is taken modulo 64 when it wraps)
ToI64(p) == {p[i] % 64 : i \in 1..Len(p)}

\* Polynomial::shift_left
ShiftLeft(p, shift) == FromDegrees([i \in 1..Len(p) |-> p[i] + shift])

\* Polynomial::or
Or(p, right_p) == VecAddAll(p, right_p)

\* Polynomial::xor
Xor(left_p, right_p) ==
    VecAddAll(VecRemAll(right_p, left_p), VecRemAll(left_p, right_p))

\* Vec::remove(position of the first x)
RECURSIVE RemoveFirst(_, _)
RemoveFirst(q, x) ==
    IF q = <<>> THEN <<>>
    ELSE IF q[1] = x THEN Tail(q) ELSE <<q[1]>> \o RemoveFirst(Tail(q), x)

\* Polynomial::multiply, the two loops: l is the index into self.degrees(),
\* r the index into p.degrees()
RECURSIVE MultiplyLoop(_, _, _, _, _)
MultiplyLoop(degrees, a, b, l, r) ==
    IF l > Len(a) THEN degrees
    ELSE IF r > Len(b) THEN MultiplyLoop(degrees, a, b, l + 1, 1)
    ELSE LET sum == a[l] + b[r]
         IN  MultiplyLoop(IF sum \in Range(degrees) THEN RemoveFirst(degrees, sum)
                          ELSE Append(degrees, sum),
                          a, b, l, r + 1)

\* Polynomial::multiply
Multiply(a, b) == MultiplyLoop(<<>>, a, b, 1, 1)

\* Polynomial::modulo, the loop `while i >= 0`
RECURSIVE ModuloLoop(_, _, _, _)
ModuloLoop(register, p, db, i) ==
    IF i < 0 THEN register
    ELSE ModuloLoop(IF (i + db) \in Range(register)
                    THEN Xor(register, ShiftLeft(p, i))
                    ELSE register,
                    p, db, i - 1)

\* faulty variant: the register is reduced at i = 0 only
Modulo_LastStep(a, p) == ModuloLoop(a, p, Degree(p), 0)

\* Polynomial::modulo
Modulo(a, p) == ModuloLoop(a, p, Degree(p), Degree(a) - Degree(p))

\* Polynomial::modulo_pow, the loop `while e.count_ones() != 0` (e >= 0)
RECURSIVE ModuloPowLoop(_, _, _, _)
ModuloPowLoop(res, b, r, e) ==
    IF e = 0 THEN res
    ELSE ModuloPowLoop(IF e % 2 = 1 THEN Modulo(Multiply(res, b), r) ELSE res,
                       Modulo(Multiply(b, b), r), r, e \div 2)

\* Polynomial::modulo_pow
ModuloPow(l, r, e) == ModuloPowLoop(FromU64({0}), l, r, e)

\* Polynomial::gcd
RECURSIVE Gcd(_, _)
Gcd(a, b) == IF b = <<>> THEN a ELSE Gcd(b, Modulo(a, b))

(***************************************************************************)
(* RabinFingerprint and FixRabinFingerprint                                *)
(***************************************************************************)
\* RabinFingerprint::push_byte
PushByte(p, base, byte) ==
    Modulo(Or(ShiftLeft(p, 8), FromU64(ByteBits(byte))), base)

\* impl Fingerprint<Polynomial> for RabinFingerprint, the loop over the bytes
RECURSIVE PushBytes(_, _, _)
PushBytes(p, base, bytes) ==
    IF bytes = <<>> THEN p
    ELSE PushBytes(PushByte(p, base, bytes[1]), base, Tail(bytes))

\* faulty variant: the running state is returned and kept
ReturnThenClean_Keep(p) == [out |-> p, p |-> p]

\* RabinFingerprint::return_then_clean
ReturnThenClean(p) == [out |-> p, p |-> Empty]

\* impl Fingerprint<i64> for RabinFingerprint: the value returned and the
\* running state left behind
RabinCalculate(p, base, bytes, checks) ==
    LET r == ReturnThenClean(PushBytes(p, base, bytes))
    IN  IF ShlOverflows(r.out) /\ checks
        THEN [res |-> "Panic", p |-> r.p]
        ELSE [res |-> "Ok", val |-> ToI64(r.out), p |-> r.p]

\* f >> n on i64 (arithmetic), 0 <= n <= 63
Shr(f, n) ==
    {b - n : b \in {c \in f : c >= n}} \cup (IF 63 \in f THEN (63 - n)..63 ELSE {})

\* f << n on i64, 0 <= n <= 63: the bits that leave the 64 are lost
Shl(f, n) == {b + n : b \in {c \in f : c + n <= 63}}

\* FixRabinFingerprint::new, the entry table[el] for the el with the one bits x
TableEntry(base, x) ==
    LET left == ShiftLeft(FromU64(x), Degree(base))
        md   == Modulo(left, base)
    IN  Xor(left, md)

\* FixRabinFingerprint::new makes all 512 entries: it panics under overflow
\* checks when one of them has a degree to_i64 cannot shift to
FixNewOverflows(base) == Degree(base) >= 0 /\ Degree(base) + 8 > 63

\* impl Fingerprint<i64> for FixRabinFingerprint, the loop over the bytes; a
\* shift count outside 0..63 panics under overflow checks and is taken
\* modulo 64 without them
RECURSIVE FixLoop(_, _, _, _, _)
FixLoop(f, base, shift, bytes, checks) ==
    IF bytes = <<>> THEN [res |-> "Ok", val |-> f]
    ELSE IF (shift < 0 \/ shift > 63) /\ checks THEN [res |-> "Panic"]
    ELSE LET x == Shr(f, shift % 64) \cap (0..8)
         IN  FixLoop(LET l == Shl(f, 8) \cup ByteBits(bytes[1])
                         t == ToI64(TableEntry(base, x))
                     IN  (l \ t) \cup (t \ l),
                     base, shift, Tail(bytes), checks)

\* FixRabinFingerprint::new(base).calculate(bytes)
FixCalculate(base, bytes, checks) ==
    IF FixNewOverflows(base) /\ checks THEN [res |-> "Panic"]
    ELSE FixLoop({}, base, Degree(base) - 8, bytes, checks)

\* the base polynomials: x^7+x^3+1 of the tests, x^3+x+1 of irr_test,
\* x^8+x^4+x^3+x+1 of check_bit_test, x^9+x^4+1
Bases == {<<7, 3, 0>>, <<3, 1, 0>>, <<8, 4, 3, 1, 0>>, <<9, 4, 0>>}

\* the byte strings fingerprinted, those of the tests among them
Inputs == {<<>>, <<1>>, <<255>>, <<128, 0>>, <<1, 2, 3>>, <<1, 1, 10, 0, 127>>}

\* the operands of the Polynomial operations: from_u64 of 0..7
Polys == {FromU64({i \in 0..2 : (n \div (2 ^ i)) % 2 = 1}) : n \in 0..7}

\* the degrees handed to from_bytes: that of check_bit_test among them
FromBytesDegrees == {0, 3, 10}

PolyOps == {"shift_left", "or", "xor", "multiply", "modulo", "modulo_pow", "gcd"}

\* the Polynomial that the operation op makes of a and b; shift_left shifts
\* a by the number of terms of b, and modulo_pow raises a to the power 3
PolyOf(op, a, b) ==
    CASE op = "shift_left" -> ShiftLeft(a, Len(b))
      [] op = "or"         -> Or(a, b)
      [] op = "xor"        -> Xor(a, b)
      [] op = "multiply"   -> Multiply(a, b)
      [] op = "modulo"     -> Modulo(a, b)
      [] op = "modulo_pow" -> ModuloPow(a, b, 3)
      [] op = "gcd"        -> Gcd(a, b)

notRabin == <<overflow_checks, logVars, skipVars, cuckooVars, codec>>

\* RabinFingerprint::new(base)
InitRabin ==
    /\ overflow_checks \in BOOLEAN
    /\ \E base \in Bases :
          rabin = [op |-> "new", base |-> base, p |-> Empty, last |-> <<>>]
    /\ LogIdle
    /\ SkipIdle
    /\ CuckooIdle
    /\ CodecIdle

RabinStopped ==
    rabin.op \in {"calculate", "fix_calculate", "from_bytes"} /\ rabin.res = "Panic"

\* RabinFingerprint::calculate(bytes) on the instance; last is the call before
Calculate(bytes) ==
    /\ ~RabinStopped
    /\ LET r == RabinCalculate(rabin.p, rabin.base, bytes, overflow_checks)
       IN  rabin' = [op |-> "calculate", base |-> rabin.base, p |-> r.p,
                     bytes |-> bytes, res |-> r.res,
                     out |-> IF r.res = "Ok" THEN r.val ELSE {},
                     last |-> IF rabin.op = "calculate"
                              THEN <<[bytes |-> rabin.bytes, out |-> rabin.out]>>
                              ELSE rabin.last]
    /\ UNCHANGED notRabin

\* FixRabinFingerprint::new(base).calculate(bytes) with the base of the instance
FixRabinCalculate(bytes) ==
    /\ ~RabinStopped
    /\ LET r == FixCalculate(rabin.base, bytes, overflow_checks)
       IN  rabin' = [op |-> "fix_calculate", base |-> rabin.base, p |-> rabin.p,
                     bytes |-> bytes, res |-> r.res,
                     out |-> IF r.res = "Ok" THEN r.val ELSE {},
                     last |-> <<>>]
    /\ UNCHANGED notRabin

\* one operation of Polynomial on operands from from_u64
PolyOp(op, a, b) ==
    /\ ~RabinStopped
    /\ rabin' = [op |-> op, base |-> rabin.base, p |-> rabin.p,
                 a |-> a, b |-> b, poly |-> PolyOf(op, a, b), last |-> <<>>]
    /\ UNCHANGED notRabin

\* Polynomial::from_bytes(bytes, degree)
PolyFromBytes(bytes, degree) ==
    /\ ~RabinStopped
    /\ LET r == FromBytes(bytes, degree, overflow_checks)
       IN  rabin' = [op |-> "from_bytes", base |-> rabin.base, p |-> rabin.p,
                     bytes |-> bytes, degree |-> degree, res |-> r.res,
                     poly |-> IF r.res = "Ok" THEN r.val ELSE Empty, last |-> <<>>]
    /\ UNCHANGED notRabin

NextRabin ==
    \/ \E bytes \in Inputs \cup {<<1, 2, 3, 4>>}, degree \in FromBytesDegrees :
          PolyFromBytes(bytes, degree)
    \/ \E bytes \in Inputs : Calculate(bytes)
    \/ \E bytes \in Inputs : FixRabinCalculate(bytes)
    \/ \E op \in PolyOps, a \in Polys, b \in Polys : PolyOp(op, a, b)

SpecRabin == InitRabin /\ [][NextRabin]_vars

(***************************************************************************)
(* Polynomial::reducibility and Polynomial::from_degree_irr                *)
(***************************************************************************)
MaxDegree == 6      \* largest degree handed to from_degree_irr

\* impl PartialOrd for Polynomial
PartialCmp(a, b) ==
    IF Degree(a) < Degree(b) THEN "Less"
    ELSE IF Degree(a) > Degree(b) THEN "Greater"
    ELSE LET p == Xor(a, b)
         IN  IF p = <<>> THEN "Equal"
             ELSE IF Degree(p) \in Range(a) THEN "Greater" ELSE "Less"

\* faulty variant: x is not subtracted from x^(2^v)
ReduceExp_NoXor(p, v) == Modulo(ModuloPow(FromU64({1}), p, 2 ^ v), p)

\* Polynomial::reduce_exp: (x^(2^v) - x) mod p
ReduceExp(p, v) ==
    LET p_x == FromU64({1})
        p_m == ModuloPow(p_x, p, 2 ^ v)
    IN  Modulo(Xor(p_m, p_x), p)

\* Polynomial::reducibility, the loop `for el in 1..=self.degree() / 2` from el on
RECURSIVE ReducibilityLoop(_, _)
ReducibilityLoop(p, el) ==
    IF el > Degree(p) \div 2 THEN "IRREDUCIBLE"
    ELSE IF PartialCmp(Gcd(p, ReduceExp(p, el)), FromU64({0})) \in {"Less", "Greater"}
    THEN "REDUCIBLE"
    ELSE ReducibilityLoop(p, el + 1)

\* Polynomial::reducibility
Reducibility(p) ==
    IF PartialCmp(p, FromU64({0})) = "Equal" THEN "REDUCIBLE"
    ELSE IF PartialCmp(p, FromU64({1})) = "Equal" THEN "REDUCIBLE"
    ELSE ReducibilityLoop(p, 1)

\* Polynomial::from_random(d) when the generator gives the bytes
FromRandom(d, bytes, checks) == FromBytes(bytes, d, checks)

\* the byte vectors from_random(d) can draw: d / 8 + 1 bytes, here one byte;
\* from_bytes reads its bits below d only
RandomBytes == {<<n>> : n \in 0..(2 ^ MaxDegree - 1)}

\* the polynomials from_random(d) can give
RandomPolys(d) == {FromRandom(d, bytes, FALSE).val : bytes \in RandomBytes}

\* the polynomial and the degree the calls are made with
InitIrr ==
    /\ overflow_checks \in BOOLEAN
    /\ \E d \in 0..MaxDegree : \E p \in RandomPolys(d) :
          rabin = [op |-> "poly", poly |-> p, degree |-> d]
    /\ LogIdle
    /\ SkipIdle
    /\ CuckooIdle
    /\ CodecIdle

\* reducibility() of the polynomial
Reduce ==
    /\ rabin.op = "poly"
    /\ rabin' = [op |-> "reducibility", poly |-> rabin.poly, degree |-> rabin.degree,
                 res |-> Reducibility(rabin.poly)]
    /\ UNCHANGED notRabin

\* from_degree_irr(d): the loop ends at the first draw that reducibility()
\* calls IRREDUCIBLE, and never if there is no such draw
FromDegreeIrr ==
    /\ rabin.op = "poly"
    /\ LET d == rabin.degree
           irr == {bytes \in RandomBytes :
                      LET r == FromRandom(d, bytes, overflow_checks)
                      IN  r.res = "Ok" /\ Reducibility(r.val) = "IRREDUCIBLE"}
       IN  IF irr = {}
           THEN rabin' = [op |-> "from_degree_irr", poly |-> rabin.poly, degree |-> d,
                          res |-> "Hang", out |-> Empty]
           ELSE \E bytes \in irr :
                   rabin' = [op |-> "from_degree_irr", poly |-> rabin.poly, degree |-> d,
                             res |-> "Ok",
                             out |-> FromRandom(d, bytes, overflow_checks).val]
    /\ UNCHANGED notRabin

NextIrr ==
    \/ Reduce
    \/ FromDegreeIrr

SpecIrr == InitIrr /\ [][NextIrr]_vars

(***************************************************************************)
(* Transaction log: properties                                             *)
(***************************************************************************)
RECURSIVE SumSeq(_)
SumSeq(q) == IF q = <<>> THEN 0 ELSE q[1] + SumSeq(Tail(q))

RECURSIVE Concat(_)
Concat(q) == IF q = <<>> THEN <<>> ELSE q[1] \o Concat(Tail(q))

\* the index entries of a file whose length is a multiple of 4
EntriesOf(f) ==
    [i \in 1..NumEntries(f) |-> IndexFromBytes(SubSeq(f.bytes, 4 * i - 3, 4 * i)).val]

\* the log is as create and successful pushes alone leave it
CleanLog == idxF.exists /\ logF.exists /\ pending = <<>> /\ ~dirty

\* C1: after create and successful pushes (with tail reads and backups in
\* between) the index entries sum up to the size of log_data, and there are as
\* many entries as records pushed.
C1_IndexSumIsDataSize ==
    CleanLog =>
        /\ Len(idxF.bytes) = 4 * NumEntries(idxF)
        /\ SumSeq(EntriesOf(idxF)) = Len(logF.bytes)
        /\ NumEntries(idxF) = Len(pushed)

C1_Witness ==
    /\ CleanLog
    /\ Len(pushed) = 2
    /\ pushed[1] # pushed[2]
    /\ logBk.exists /\ logBk.bytes # <<>>
    /\ ret.op = "read_from_end" /\ ret.res = "Ok"

C3_PushStep ==
    /\ (pending = <<>> /\ pending' # <<>>) =>
          /\ Len(idxF'.bytes) = Len(idxF.bytes) + 4
          /\ SubSeq(idxF'.bytes, 1, Len(idxF.bytes)) = idxF.bytes
          /\ IndexFromBytes(SubSeq(idxF'.bytes, Len(idxF.bytes) + 1, Len(idxF.bytes) + 4))
                = [res |-> "Ok", val |-> pending'[1].key_len + pending'[1].val_len + 25]
          /\ logF' = logF /\ lockF' = lockF
    /\ (pending # <<>> /\ pending' = <<>> /\ ret'.res = "Ok") =>
          /\ Len(logF'.bytes) = Len(logF.bytes) + SizeInBytes(pending[1])
          /\ SubSeq(logF'.bytes, 1, Len(logF.bytes)) = logF.bytes
          /\ RecordFromBytes(SubSeq(logF'.bytes, Len(logF.bytes) + 1, Len(logF'.bytes)))
                = [res |-> "Ok", val |-> pending[1]]
          /\ idxF' = idxF /\ lockF' = lockF
          /\ ret'.val = SizeInBytes(pending[1])
          /\ ret'.val = pending[1].key_len + pending[1].val_len + 25
          /\ (Len(pending[1].key) = 10 /\ Len(pending[1].val) = 20) => ret'.val = 55

C3_PushFrame == [][C3_PushStep]_vars

C3_Witness ==
    /\ ret.op = "push" /\ ret.res = "Ok" /\ ret.val = 55
    /\ Len(pushed) = 2
    /\ Len(ret.arg.key) = 10 /\ Len(ret.arg.val) = 20

\* C4: after n successful pushes r_1..r_n on a freshly created log,
\* read_from_end(k) returns r_(n-k+1) for every k in 1..n; read_from_end(1)
\* returns the record pushed last.
C4_ReadFromEndIsKthFromTail ==
    CleanLog =>
        /\ \A k \in 1..Len(pushed) :
              ReadFromEndOf(idxF, logF, k, overflow_checks)
                 = [res |-> "Ok", val |-> pushed[Len(pushed) - k + 1]]
        /\ (ret.op = "read_from_end" /\ ret.arg \in 1..Len(pushed)) =>
              ret.res = "Ok" /\ ret.val = pushed[Len(pushed) - ret.arg + 1]

C4_Witness ==
    /\ CleanLog
    /\ Len(pushed) = 2
    /\ SizeInBytes(pushed[1]) # SizeInBytes(pushed[2])
    /\ ret.op = "read_from_end" /\ ret.arg = 2 /\ ret.res = "Ok"
    /\ ret.val = pushed[1]

\* C5: after n successful pushes, read_all_from_end(k) returns for every k in
\* 1..n exactly k records, tail first: its i-th element is r_(n-i+1), which is
\* what read_from_end(i) returns.
C5_ReadAllIsTailToHead ==
    CleanLog =>
        \A k \in 1..Len(pushed) :
            LET all == ReadAllFromEndOf(idxF, logF, k, overflow_checks)
            IN  /\ all.res = "Ok"
                /\ Len(all.val) = k
                /\ \A i \in 1..k :
                      /\ all.val[i] = pushed[Len(pushed) - i + 1]
                      /\ [res |-> "Ok", val |-> all.val[i]]
                            = ReadFromEndOf(idxF, logF, i, overflow_checks)

C5_Witness ==
    /\ CleanLog
    /\ Len(pushed) = 2
    /\ SizeInBytes(pushed[1]) # SizeInBytes(pushed[2])
    /\ ret.op = "read_all_from_end" /\ ret.arg = 2 /\ ret.res = "Ok"
    /\ ret.val = <<pushed[2], pushed[1]>>

\* C6: read_from_end(k) and read_all_from_end(k) on a log of fewer than k
\* records (an empty one too) return an error value: no underflow, no panic.
C6_ShortLogReadReturnsErr ==
    (/\ ret.op \in {"read_from_end", "read_all_from_end"}
     /\ idxF.exists /\ logF.exists
     /\ ret.arg > NumEntries(idxF)) => ret.res = "Err"

\* C7: create returns an error whenever log.lock exists and then creates and
\* truncates nothing; create_force in that state removes the lock, succeeds
\* and leaves log.lock present.
C7_CreateStep ==
    /\ (ret'.op = "create" /\ ret' # ret /\ lockF) =>
          /\ ret'.res = "Err"
          /\ UNCHANGED <<dirKind, lockF, idxF, logF, idxBk, logBk, live, pushed>>
    /\ (ret'.op = "create_force" /\ ret' # ret /\ lockF) =>
          /\ ret'.res = "Ok"
          /\ lockF'
          /\ live' = live + 1

C7_CreateRespectsLock == [][C7_CreateStep]_vars

C7_Witness ==
    /\ ret.op = "create_force" /\ ret.res = "Ok" /\ ret.locked
    /\ lockF /\ live > 0

\* the TransactionLog values not yet disposed: neither dropped nor closed
Undisposed == {i \in 1..Len(insts) : ~insts[i].closed}

\* C37: close or drop of one TransactionLog never removes the log.lock that
\* guards another instance not yet disposed; log.lock is present whenever
\* some instance is not yet disposed; at most one instance that create
\* returned is undisposed at a time.
C37_LockGuardsLiveInstances ==
    /\ [][((Close \/ Drop) /\ lockF /\ Undisposed' # {}) => lockF']_vars
    /\ [](Undisposed # {} => lockF)
    /\ [](Cardinality({i \in Undisposed : insts[i].via = "create"}) <= 1)

\* C28: backup() on a log whose log_data and log_idx both exist creates
\* log_data.cfgdb.bck and log_idx.cfgdb.bck byte-identical to the originals
\* and leaves the originals and the lock unchanged; if either original is
\* missing it returns an error and creates or overwrites no backup file.
C28_BackupStep ==
    [][(ret'.op = "backup" /\ ret' # ret) =>
          /\ UNCHANGED <<idxF, logF, lockF>>
          /\ IF idxF.exists /\ logF.exists
             THEN /\ ret'.res = "Ok"
                  /\ logBk' = [exists |-> TRUE, bytes |-> logF.bytes]
                  /\ idxBk' = [exists |-> TRUE, bytes |-> idxF.bytes]
             ELSE /\ ret'.res = "Err"
                  /\ UNCHANGED <<idxBk, logBk>>]_vars

C28_Witness ==
    /\ ret.op = "backup" /\ ret.res = "Ok"
    /\ logF.exists /\ Len(logF.bytes) > 0
    /\ logBk = logF /\ idxBk = idxF /\ idxBk # logBk

\* C29: read_all_from_end(number_from_end) returns a StoreError when
\* number_from_end is less than 1 (that is 0), as read_from_end(0) does,
\* rather than succeeding with an empty list.
C29_ReadAllZeroIsErr ==
    (ret.op = "read_all_from_end" /\ ret.arg = 0) => ret.res = "Err"

(***************************************************************************)
(* Skip list: properties.  kv is the map the calls made so far describe:   *)
(* kv[K] is the value last inserted for K, 0 once K is deleted.  sret      *)
(* keeps, of the last call, kv[K] (pre), size() (size0), the number of     *)
(* keys of kv (keys0) and search(K) (found0), all taken before the call.   *)
(***************************************************************************)
\* C8: insert(K, V) on a list reached by inserts and deletes returns None and
\* adds 1 to size() if K was absent, returns Some(V0) and leaves size() if K
\* was present with V0; search(K) afterwards returns Some(V).  Stated of the
\* calls made while size() is the number of keys present, so that a miscounted
\* size() is not what fails it.
C8_InsertResult ==
    (sret.op = "insert" /\ sret.size0 = sret.keys0) =>
        /\ sret.pre = 0 => (sret.res = "None" /\ size = sret.size0 + 1)
        /\ sret.pre # 0 =>
              (sret.res = "Some" /\ sret.out = sret.pre /\ size = sret.size0)
        /\ SearchOf(heap, head, sret.key) = [res |-> "Some", out |-> sret.val]

\* C9: delete(K) of a present key (the head's, an inner one, the only one)
\* returns Some(its value); search(K) then returns None and size() is one less.
\* Stated of the calls made while size() is the number of keys present.
C9_DeleteResult ==
    (sret.op = "delete" /\ sret.pre # 0 /\ sret.size0 = sret.keys0) =>
        /\ sret.res = "Some" /\ sret.out = sret.pre
        /\ SearchOf(heap, head, sret.key).res = "None"
        /\ size = sret.size0 - 1

\* C10: size() goes down once for each successful delete and never otherwise:
\* delete(K) of a key that is not in a list that is not empty returns None and
\* leaves size(); size() never underflows and is the number of keys present.
C10_SizeCountsKeys ==
    /\ (sret.op = "delete" /\ sret.pre = 0 /\ sret.keys0 > 0
                           /\ sret.size0 = sret.keys0) =>
          (sret.res = "None" /\ size = sret.size0)
    /\ sret.res # "Panic"
    /\ size >= 0
    /\ size = KeysPresent(kv)

\* the members of a set of numbers in ascending order
RECURSIVE Ascending(_)
Ascending(S) ==
    IF S = {} THEN <<>>
    ELSE LET m == CHOOSE x \in S : \A y \in S : x <= y
         IN  <<m>> \o Ascending(S \ {m})

\* C11: after any inserts and deletes, iter() yields the keys inserted and not
\* deleted since, each once, in strictly ascending order.
C11_IterYieldsPresentKeysAscending ==
    sret.op = "iter" =>
        /\ sret.res = "Ok"
        /\ sret.out = Ascending({k \in Keys : kv[k] # 0})

\* the nodes of key k that the links from the head reach
NodesOf(k) == {a \in Reach(heap, head) : heap[a].key = k}

\* C12: after any inserts and deletes, every node of level L > 1 reached from
\* the head has an under link to a node of the same key and level L - 1, and
\* every present key has one tower: one node a level, one ground node, which
\* repeated under reaches from each of them.
C12_TowersWellFormed ==
    ~Stopped =>
        /\ \A a \in Reach(heap, head) :
              heap[a].level > 1 =>
                  /\ heap[a].under # 0
                  /\ heap[heap[a].under].key = heap[a].key
                  /\ heap[heap[a].under].level = heap[a].level - 1
        /\ \A k \in Keys :
              kv[k] # 0 =>
                  /\ Cardinality({a \in NodesOf(k) : heap[a].level = 1}) = 1
                  /\ \A a, b \in NodesOf(k) :
                        /\ heap[a].level = heap[b].level => a = b
                        /\ LowerNode(heap, a) = LowerNode(heap, b)
                        /\ heap[LowerNode(heap, a)].level = 1

\* C32: after any inserts and deletes, on every level the next chain has
\* strictly ascending keys, prev and next are inverse of each other, the
\* nodes of one chain carry the same level, and every key of a level above 1
\* is at ground level too.
C32_LevelsOrderedAndLinked ==
    ~Stopped =>
        \A a \in Reach(heap, head) :
            /\ heap[a].next # 0 =>
                  /\ heap[a].key < heap[heap[a].next].key
                  /\ heap[heap[a].next].prev = a
                  /\ heap[heap[a].next].level = heap[a].level
            /\ heap[a].prev # 0 => heap[heap[a].prev].next = a
            /\ heap[a].level > 1 =>
                  \E b \in Reach(heap, head) :
                      heap[b].key = heap[a].key /\ heap[b].level = 1

\* C33: after any inserts and deletes, the head link is None iff the list
\* holds no key; otherwise it points at the node with the smallest key among
\* the nodes of the highest level occupied: that node has no prev and no node
\* of the list has a higher level.
C33_HeadIsTopLeft ==
    ~Stopped =>
        /\ head = 0 <=> KeysPresent(kv) = 0
        /\ head # 0 =>
              /\ heap[head].prev = 0
              /\ \A a \in Reach(heap, head) :
                    /\ heap[a].level <= heap[head].level
                    /\ heap[a].level = heap[head].level => heap[head].key <= heap[a].key

\* C34: every tower has a height in [1, levels], levels being
\* floor(log2(expected_capacity)): the first insert into an empty list builds
\* a tower of exactly levels nodes, a later insert of a new key one of
\* random(levels) + 1 <= levels, and no node has a level above levels.
C34_TowerHeights ==
    ~Stopped =>
        /\ \A a \in Reach(heap, head) :
              1 <= heap[a].level /\ heap[a].level <= levels
        /\ (sret.op = "insert" /\ ops = 1) =>
              Cardinality(NodesOf(sret.key)) = levels

\* C35: every record from_bytes returns Ok for has key.len() = key_len and
\* val.len() = val_len, so its size_in_bytes() is the length of its
\* re-encoding, and its val ends at offset 25 + key_len + val_len of the input.
C35_DecodedLengths ==
    (codec.step = "decoded" /\ codec.dec.res = "Ok") =>
        LET r == codec.dec.val
        IN  /\ Len(r.key) = r.key_len
            /\ Len(r.val) = r.val_len
            /\ SizeInBytes(r) = Len(RecordToBytes(r))
            /\ r.val = SubSeq(codec.bytes, 26 + r.key_len, 25 + r.key_len + r.val_len)

\* C38: insert(K, V) and delete(K) leave every other key untouched: for every
\* key K' # K, search(K') returns after the operation what it returned before.
C38_OtherKeysUntouched ==
    [][(ops' = ops + 1 /\ sret'.res \notin {"Panic", "Hang"}) =>
          \A k \in Keys \ {sret'.key} :
              SearchOf(heap', head', k) = SearchOf(heap, head, k)]_vars

\* C40: after clear() the list is empty in every observable respect: size()
\* is 0, search returns None for every key, iter() yields nothing, and an
\* insert of a new key right after it makes size() 1.
C40_ClearEmpties ==
    /\ [](sret.op = "clear" =>
             /\ size = 0
             /\ \A k \in Keys : SearchOf(heap, head, k).res = "None"
             /\ IterOf(heap, head) = [res |-> "Ok", keys |-> <<>>])
    /\ [][(sret.op = "clear" /\ sret'.op = "insert" /\ sret'.res # "Panic")
             => size' = 1]_vars

\* C39: the traversal driven by Node::compare ends for every key on every
\* list insert and delete reach: search, insert and delete always return.
C39_TraversalEnds ==
    /\ sret.res # "Hang"
    /\ \A k \in Keys : SearchOf(heap, head, k).res # "Hang"

\* the kinds of step a walk from curr takes before it ends
RECURSIVE StepKinds(_, _, _, _, _)
StepKinds(h, curr, prev_step, key, fuel) ==
    LET c == Compare(h, curr, key, prev_step)
    IN  IF c.kind \in {"Found", "NotFound"} \/ fuel = 0 THEN {}
        ELSE {c.kind} \cup
             StepKinds(h, c.node,
                       IF c.kind = "Backward" THEN "FromRight"
                       ELSE IF c.kind = "Forward" THEN "FromLeft" ELSE "FromAbove",
                       key, fuel - 1)

\* after a delete, a search takes steps of all three kinds and returns
C39_Witness ==
    /\ sret.op = "delete" /\ ~Stopped /\ head # 0
    /\ \E k \in Keys :
          /\ StepKinds(heap, head, "FromHead", k, Fuel) = {"Forward", "Backward", "Down"}
          /\ SearchOf(heap, head, k).res \in {"Some", "None"}

(***************************************************************************)
(* Cuckoo filter: properties                                               *)
(***************************************************************************)
\* a bucket some swap has written to: its Vec is longer than Bucket::new and
\* the inserts made it
Swapped(b) == Len(b.base) > b.cap + b.idx

\* C13: no false negatives: once insert(x) has returned Done, contains(x) is
\* true, at once and after any later inserts, those that evict or return Full
\* included.
C13_NoFalseNegatives ==
    /\ \A x \in done : CuckooContainsOf(table, x)
    /\ (cret.op = "contains" /\ cret.item \in done) => cret.res = "true"

C13_Witness ==
    /\ cret.op = "contains" /\ cret.item \in done /\ cret.res = "true"
    /\ \E i \in 1..Len(table) : Swapped(table[i])
    /\ Cardinality(done) >= 2

\* C14: insert ends with Done or Full after at most 512 swaps; Full is returned
\* only if both candidate buckets were full and the 512 swaps all met a full
\* partner, Done after a swap only into a bucket that was not full, Done with no
\* swap whenever one of the two candidate buckets was not full; with one bucket
\* of one slot the first insert returns Done and the second Full.
C14_InsertTerminates ==
    cret.op = "insert" =>
        /\ cret.res \in {"Done", "Full"}
        /\ cret.swaps <= EvictionBudget
        /\ cret.res = "Full" => (cret.full1 /\ cret.full2 /\ cret.swaps = EvictionBudget)
        /\ cret.res = "Done" => ~cret.at_full
        /\ ~(cret.full1 /\ cret.full2) => (cret.res = "Done" /\ cret.swaps = 0)
        /\ (Len(table) = 1 /\ table[1].cap = 1) =>
              /\ cret.call = 1 => cret.res = "Done"
              /\ cret.call = 2 => cret.res = "Full"

C14_Witness ==
    /\ cret.op = "insert" /\ cret.res = "Full" /\ cret.swaps = EvictionBudget
    /\ Len(table) = 1 /\ table[1].cap = 1 /\ cret.call = 2

\* C15: in every state inserts reach, each bucket's counter is within
\* 0..capacity, is_full() holds iff it is the capacity and is_empty() iff it is 0.
C15_BucketCounter ==
    \A i \in 1..Len(table) :
        /\ 0 <= table[i].idx /\ table[i].idx <= table[i].cap
        /\ IsFull(table[i]) <=> (table[i].idx = table[i].cap)
        /\ IsEmpty(table[i]) <=> (table[i].idx = 0)

C15_Witness ==
    /\ \E i \in 1..Len(table) : IsFull(table[i]) /\ Swapped(table[i])
    /\ \E i \in 1..Len(table) : IsEmpty(table[i])

\* C16: after any inserts (the same item again, eviction swaps), no bucket
\* holds the same fingerprint in two slots.
C16_BucketDeduplicated ==
    \A i \in 1..Len(table) :
        \A j, k \in 1..Len(table[i].base) :
            (j # k /\ table[i].base[j] # <<>>) => table[i].base[j] # table[i].base[k]

\* the number of fingerprints a bucket stores
Stored(b) == Cardinality({i \in 1..Len(b.base) : b.base[i] # <<>>})

\* C30: an eviction swap on a full bucket overwrites one occupied slot chosen
\* in [0, counter): afterwards the carried fingerprint f is stored in place of
\* the evictee e, and the slot array keeps its length, so that the number of
\* stored fingerprints still equals counter and never exceeds the capacity.
C30_SwapOverwrites ==
    \A i \in 1..Len(table) :
        /\ Stored(table[i]) = table[i].idx
        /\ Stored(table[i]) <= table[i].cap
        /\ IsFull(table[i]) =>
              \A x \in Items, idx_swap \in 0..(table[i].idx - 1) :
                  LET r == BucketSwap(table[i], x.fpr, idx_swap)
                  IN  /\ r.old_val = table[i].base[idx_swap + 1]
                      /\ r.bucket.base[idx_swap + 1] = <<x.fpr>>
                      /\ Len(r.bucket.base) = Len(table[i].base)
                      /\ Stored(r.bucket) = r.bucket.idx
                      /\ Stored(r.bucket) <= r.bucket.cap

\* C31: in each eviction step that evicts e from bucket num while carrying f,
\* the fingerprint placed into the partner bucket j = (e XOR num) & (cap - 1)
\* when j is not full is the evictee e, not the carried f; when j is full the
\* next turn carries e and goes on at bucket j.
C31_EvictPlacesEvictee ==
    \A num \in 0..(Len(table) - 1), x \in Items, first \in 0..(table[1].cap - 1) :
        LET b    == table[num + 1]
            slot == SlotAt(first, 0, b.idx)
            e    == b.base[slot + 1]
            t1   == [table EXCEPT ![num + 1] = BucketSwap(b, x.fpr, slot).bucket]
            j    == BucketOf(XorI64(e[1], num), Len(table))
            nx   == EvictStep([table |-> table, idx |-> 0, num |-> num, v |-> x.fpr,
                               res |-> "Running", at |-> num], first)
        IN  (IsFull(b) /\ e # <<>>) =>
                IF IsFull(t1[j + 1])
                THEN nx.res = "Running" /\ nx.v = e[1] /\ nx.num = j
                ELSE nx.res = "Done" /\ nx.table[j + 1] = BucketInsert(t1[j + 1], e[1])

\* the fingerprints the partner relation is tried with
Fingerprints == -9..9

\* C17: on a table of a power of two buckets, for every index i and every
\* fingerprint f, j = bucket(i ^ f) gives bucket(j ^ f) = i.
C17_PartnerSymmetric ==
    \A i \in 0..(Len(table) - 1), f \in Fingerprints :
        LET j == BucketOf(XorI64(i, f), Len(table))
        IN  BucketOf(XorI64(j, f), Len(table)) = i

C17_Witness ==
    /\ Len(table) = 4
    /\ cret.op = "insert" /\ cret.res = "Done" /\ cret.full1
    /\ cret.at = BucketOf(XorI64(BucketOf(cret.item.hash, 4), cret.item.fpr), 4)
    /\ cret.at # BucketOf(cret.item.hash, 4)

(***************************************************************************)
(* Record codec: properties                                                *)
(***************************************************************************)
\* C18: for every Record r of insert_record, delete_record or lock_record,
\* from_bytes(r.to_bytes()) is Ok of a record equal to r in every field.
C18_RecordRoundTrip ==
    (codec.step = "decoded" /\ codec.whole) =>
        codec.dec = [res |-> "Ok", val |-> codec.rec]

C18_Witness ==
    /\ codec.step = "decoded" /\ codec.whole
    /\ codec.rec.operation = "Delete" /\ codec.rec.key = <<0, 7>>
    /\ codec.rec.val = <<3, 4, 5>> /\ codec.rec.timestamp = <<1, 2>>
    /\ codec.dec.res = "Ok"

Malformed(bytes) ==
    \/ bytes = <<>>
    \/ bytes[1] \notin {1, 2, 3}
    \/ Len(bytes) < 25
    \/ Len(bytes) < 25 + Convert32(SubSeq(bytes, 18, 21)) + Convert32(SubSeq(bytes, 22, 25))

\* C20: from_bytes returns an error value for every malformed input; it
\* neither aborts nor makes up a record.
C20_MalformedIsErr ==
    (codec.step = "decoded" /\ Malformed(codec.bytes)) => codec.dec.res = "Err"

\* C21: for every u32 i, Index::create(i).to_bytes() has 4 bytes and decodes
\* back to i; for every byte string B, Index::from_bytes_array(B) returns
\* floor(len(B)/4) indices, the n-th the big-endian u32 of B[4n..4n+4], and
\* drops a trailing fragment of 1 to 3 bytes silently instead of failing.
C21_IndexCodec ==
    /\ codec.step \in {"index_bytes", "index_decoded"} => Len(codec.bytes) = 4
    /\ codec.step = "index_decoded" => codec.dec = [res |-> "Ok", val |-> codec.val]
    /\ codec.step = "array_decoded" =>
          /\ codec.dec.res = "Ok"
          /\ Len(codec.dec.val) = Len(codec.bytes) \div 4
          /\ \A n \in 1..Len(codec.dec.val) :
                codec.dec.val[n] = FromBE(SubSeq(codec.bytes, 4 * n - 3, 4 * n))

(***************************************************************************)
(* File segment reads: properties                                          *)
(***************************************************************************)
\* the three preconditions of read_slice, on the u64 values themselves
SliceInFile(from, number, f) ==
    /\ f.exists
    /\ from >= 0 /\ number > 0
    /\ from < Len(f.bytes)
    /\ from + number <= Len(f.bytes)

\* C22: read_slice(path, from, n) returns the decoding of exactly the bytes
\* [from, from+n) of the file when from < file_size, from+n <= file_size and
\* n > 0, and an error with no partial data when one of the three is violated.
C22_ReadSlice ==
    ret.op = "read_slice" =>
        IF SliceInFile(ret.from, ret.number, logF)
        THEN /\ ret.res = RecordFromBytes(SubSeq(logF.bytes, ret.from + 1, ret.from + ret.number)).res
             /\ ret.res = "Ok" =>
                  ret.val = RecordFromBytes(SubSeq(logF.bytes, ret.from + 1, ret.from + ret.number)).val
        ELSE ret.res = "Err" /\ "val" \notin DOMAIN ret

(***************************************************************************)
(* Fingerprints: properties                                                *)
(***************************************************************************)
\* the number whose one bits are at the positions S
RECURSIVE BitsToInt(_)
BitsToInt(S) == IF S = {} THEN 0 ELSE 2 ^ SetMax(S) + BitsToInt(S \ {SetMax(S)})

MessageBits(bytes) ==
    UNION {{8 * (Len(bytes) - i) + b : b \in ByteBits(bytes[i])} : i \in 1..Len(bytes)}

\* the remainder of the polynomial M modulo P # 0 over GF(2), both as sets of
\* degrees: the leading term of M is cancelled by a multiple of P
RECURSIVE GF2Rem(_, _)
GF2Rem(M, P) ==
    IF M = {} \/ SetMax(M) < SetMax(P) THEN M
    ELSE LET Q == {d + SetMax(M) - SetMax(P) : d \in P}
         IN  GF2Rem((M \ Q) \cup (Q \ M), P)

\* C24: calculate(B) on a reset RabinFingerprint with base P returns the
\* integer form of the remainder of the message polynomial of B modulo P over
\* GF(2); for P = x^7+x^3+1 and B = [1,1,10,0,127] that is 50, degrees {5,4,1}.
C24_CalculateIsRemainder ==
    rabin.op = "calculate" =>
        /\ rabin.res = "Ok"
        /\ rabin.out = GF2Rem(MessageBits(rabin.bytes), Range(rabin.base))

C24_Witness ==
    /\ rabin.op = "calculate" /\ rabin.base = <<7, 3, 0>>
    /\ rabin.bytes = <<1, 1, 10, 0, 127>>
    /\ rabin.out = {5, 4, 1} /\ BitsToInt(rabin.out) = 50

\* the polynomials of degree 1 to d - 1, as sets of degrees
FactorsBelow(d) == {S \in SUBSET (0..(d - 1)) : S # {} /\ SetMax(S) >= 1}

\* factor search: no polynomial of degree 1 to deg(p) - 1 divides p
HasNoFactor(p) == \A Q \in FactorsBelow(Degree(p)) : GF2Rem(Range(p), Q) # {}

\* C36: reducibility() says IRREDUCIBLE of a polynomial of degree >= 2 exactly
\* when a factor search finds no factor (x^3+x+1 is IRREDUCIBLE), and what
\* from_degree_irr(d) returns has degree d and passes this test.
C36_ReducibilityIsCorrect ==
    /\ (rabin.op = "reducibility" /\ Degree(rabin.poly) >= 2) =>
          (rabin.res = "IRREDUCIBLE" <=> HasNoFactor(rabin.poly))
    /\ (rabin.op = "from_degree_irr" /\ rabin.res = "Ok") =>
          /\ Degree(rabin.out) = rabin.degree
          /\ Reducibility(rabin.out) = "IRREDUCIBLE"
          /\ rabin.degree >= 2 => HasNoFactor(rabin.out)

C36_Witness ==
    /\ rabin.op = "reducibility" /\ rabin.poly = <<3, 1, 0>>
    /\ rabin.res = "IRREDUCIBLE"

\* C25: for every base polynomial P and every byte string B,
\* FixRabinFingerprint::new(P).calculate(B) equals
\* RabinFingerprint::new(P).calculate(B).
C25_FixEqualsRabin ==
    rabin.op = "fix_calculate" =>
        /\ rabin.res = "Ok"
        /\ rabin.out = ToI64(PushBytes(Empty, rabin.base, rabin.bytes))

\* the degrees are pairwise distinct and strictly descending
Descending(p) == \A i, j \in 1..Len(p) : i < j => p[i] > p[j]

\* C26: every Polynomial produced by from_u64, from_bytes, from_degrees,
\* shift_left, or, xor, multiply, modulo, modulo_pow, gcd stores pairwise
\* distinct degrees in strictly descending order.
C26_DegreesDescending ==
    /\ \A q \in Polys : Descending(q)
    /\ Descending(rabin.p)
    /\ "poly" \in DOMAIN rabin => Descending(rabin.poly)

(***************************************************************************)
(* MemTable: properties                                                    *)
(***************************************************************************)
\* C27: after add(K, V) returns Ok, find(&K) returns Some(V); find of a key
\* that was never added returns None.
C27_FindAfterAdd ==
    sret.op = "find" =>
        /\ kv[sret.key] > 0 => sret.res = "Some" /\ sret.out = kv[sret.key]
        /\ kv[sret.key] = 0 => sret.res = "None"

====
